---------------------------- MODULE Spec2Model ----------------------------
(***************************************************************************)
(* A model of the URANUS agent runtime: the conversation Memory, the       *)
(* ToolRegistry, the ReactiveAgent dispatch (BaseAgent.run and             *)
(* ReactiveAgent.next_step), the file, terminal and Python tools, the     *)
(* SequentialFlow and the Config singleton.                                *)
(*                                                                         *)
(* Python text is modelled as a sequence of one-character strings, so that *)
(* lower(), startswith(), "in", slicing, strip(), split() and join() are   *)
(* computed as Python computes them.  An Optional value is a sequence of   *)
(* length 0 (None) or 1.                                                   *)
(***************************************************************************)
EXTENDS Integers, Sequences, FiniteSets, TLC

VARIABLES
    messages,       \* Memory.messages
    max_messages,   \* Memory.max_messages
    appended,       \* history: every message passed to add_message since the memory was empty
    memCall,        \* what the last call of another Memory method did
    tools,          \* ToolRegistry.tools, an insertion-ordered dict: a sequence of [key, tool]
    registered,     \* history: the tools passed to register, in call order
    lastOp,         \* history: the operation performed by the last step
    execResult,     \* what the last ToolRegistry.execute call did
    state,          \* BaseAgent.state
    runs,           \* number of BaseAgent.run calls made so far
    lastRun,        \* what the last BaseAgent.run call did
    coros,          \* the run() calls of the coroutines of SpecOverlap
    fs,             \* the file system: the set of paths that exist, with their kind and content
    fileResult,     \* what the last file tool call did
    terminals,      \* the TerminalTool instances: current_path and lock of each
    os_cwd,         \* the working directory of the process, which os.chdir sets
    executes,       \* the TerminalTool.execute calls: where each coroutine is, and its locals
    termLog,        \* history: what was done on each TerminalTool instance, in order
    pyexec,         \* the PythonExecuteTool.execute call: where it is, its arguments and result
    worker,         \* the worker process of that call, with the shared result_dict
    loop,           \* the event loop of the caller: the coroutine it runs, and the progress of another one
    flow,           \* the SequentialFlow: its agents, its agent_sequence and where its execute call is
    flowLog,        \* history: the agent.run calls the flow made, with input and outcome
    config,         \* the Config class: _instance, _lock, the instance's _initialized, the loads made
    threads         \* the threads that call Config(): where each is, and what it was returned

vars == <<messages, max_messages, appended, memCall, tools, registered, lastOp,
          execResult, state, runs, lastRun, coros, fs, fileResult,
          terminals, os_cwd, executes, termLog, pyexec, worker, loop,
          flow, flowLog, config, threads>>

memVars == <<messages, max_messages, appended, memCall>>
regVars == <<tools, registered, execResult>>
agentVars == <<state, runs, lastRun, coros>>
fileVars == <<fs, fileResult>>
termVars == <<terminals, os_cwd, executes, termLog>>
pyVars == <<pyexec, worker, loop>>
flowVars == <<flow, flowLog>>
cfgVars == <<config, threads>>

-----------------------------------------------------------------------------
(* Bounds of the model *)

MaxCap == 3         \* Memory.max_messages ranges over 0..MaxCap in SpecMemory
MaxAppends == 4     \* add_message calls made on one memory in SpecMemory
MaxRegisters == 3   \* register calls made on one registry in SpecRegistry
MaxRuns == 1        \* run() calls made on one agent in Spec

-----------------------------------------------------------------------------
(* Python text *)

None == <<>>
Some(x) == <<x>>

Whitespace == {" ", "\n", "\t"}

LowerChar(c) ==
    CASE c = "A" -> "a" [] c = "B" -> "b" [] c = "C" -> "c" [] c = "D" -> "d"
      [] c = "E" -> "e" [] c = "F" -> "f" [] c = "G" -> "g" [] c = "H" -> "h"
      [] c = "I" -> "i" [] c = "J" -> "j" [] c = "K" -> "k" [] c = "L" -> "l"
      [] c = "M" -> "m" [] c = "N" -> "n" [] c = "O" -> "o" [] c = "P" -> "p"
      [] c = "Q" -> "q" [] c = "R" -> "r" [] c = "S" -> "s" [] c = "T" -> "t"
      [] c = "U" -> "u" [] c = "V" -> "v" [] c = "W" -> "w" [] c = "X" -> "x"
      [] c = "Y" -> "y" [] c = "Z" -> "z" [] OTHER -> c

\* str.lower()
Lower(t) == [i \in 1..Len(t) |-> LowerChar(t[i])]

\* str.startswith(p)
StartsWith(t, p) == Len(p) <= Len(t) /\ SubSeq(t, 1, Len(p)) = p

\* str.find(sub), 1-based; 0 when sub does not occur
Find(t, sub) ==
    LET hits == {i \in 1..(Len(t) - Len(sub) + 1) : SubSeq(t, i, i + Len(sub) - 1) = sub}
    IN  IF hits = {} THEN 0 ELSE CHOOSE i \in hits : \A j \in hits : i <= j

\* sub in t
Contains(t, sub) == Find(t, sub) # 0

\* s[i:], for a text or a list, i of either sign
PySliceFrom(s, i) ==
    LET n == Len(s)
        start == IF i < 0 THEN (IF n + i < 0 THEN 0 ELSE n + i)
                          ELSE (IF i > n THEN n ELSE i)
    IN  SubSeq(s, start + 1, n)

\* str.strip()
Strip(t) ==
    LET keep == {i \in 1..Len(t) : t[i] \notin Whitespace}
    IN  IF keep = {} THEN <<>>
        ELSE LET lo == CHOOSE i \in keep : \A j \in keep : i <= j
                 hi == CHOOSE i \in keep : \A j \in keep : j <= i
             IN  SubSeq(t, lo, hi)

\* str.split(sep, maxsplit)
RECURSIVE Split(_, _, _)
Split(t, sep, maxsplit) ==
    LET at == Find(t, sep)
    IN  IF maxsplit = 0 \/ at = 0 THEN <<t>>
        ELSE <<SubSeq(t, 1, at - 1)>> \o
             Split(SubSeq(t, at + Len(sep), Len(t)), sep, maxsplit - 1)

\* sep.join(parts)
RECURSIVE Join(_, _)
Join(parts, sep) ==
    IF parts = <<>> THEN <<>>
    ELSE IF Len(parts) = 1 THEN parts[1]
    ELSE parts[1] \o sep \o Join(Tail(parts), sep)

-----------------------------------------------------------------------------
(* Message and Memory: src/uranus/schema/message.py, src/uranus/schema/memory.py *)

Message(role, content) == [role |-> role, content |-> content, name |-> None]

DefaultMaxMessages == 100

\* Memory._trim_memory
trim_memory(msgs, max) ==
    IF Len(msgs) > max THEN PySliceFrom(msgs, 0 - max) ELSE msgs

\* (an add_message that stores no assistant message)
add_message_dropping_assistant(msgs, max, m) ==
    IF m.role = "assistant" THEN msgs ELSE trim_memory(Append(msgs, m), max)

\* Memory.add_message
add_message(msgs, max, m) == trim_memory(Append(msgs, m), max)

\* The names that can be called on the class Message itself: message.py
\* defines the fields and the instance method to_dict, and no classmethod
MessageClassMethods == {}

\* The classmethod of Message that Memory's add_<role>_message calls
FactoryOf ==
    [user |-> "user_message", system |-> "system_message",
     assistant |-> "assistant_message", tool |-> "tool_message"]

\* The method of Memory that adds a message of a role
MethodOf ==
    [user |-> "add_user_message", system |-> "add_system_message",
     assistant |-> "add_assistant_message", tool |-> "add_tool_message"]

\* What a call of a Memory method did.  raised: the name of the exception
\* that left the call, or ""
MemoryCall(op, n, message, returned, raised) ==
    [op |-> op, n |-> n, message |-> message, returned |-> returned, raised |-> raised]
NoMemoryCall == MemoryCall("", 0, None, <<>>, "")

\* Memory.add_user_message, add_system_message, add_assistant_message and
\* add_tool_message: the messages afterwards, and the exception raised
add_role_message(msgs, max, m) ==
    IF FactoryOf[m.role] \in MessageClassMethods
    THEN [messages |-> add_message(msgs, max, m), raised |-> ""]
    ELSE [messages |-> msgs, raised |-> "AttributeError"]

\* Memory.get_recent_messages
get_recent_messages(msgs, n) ==
    IF n < Len(msgs) THEN PySliceFrom(msgs, 0 - n) ELSE msgs

\* The arguments of add_<role>_message in SpecMemory
RoleMessages ==
    { [role |-> "user", content |-> <<"a">>, name |-> None],
      [role |-> "system", content |-> <<"s">>, name |-> None],
      [role |-> "assistant", content |-> <<"b">>, name |-> None],
      [role |-> "tool", content |-> <<"o">>, name |-> Some(<<"t">>)] }

MaxRecent == 5      \* get_recent_messages(n) is called with n in 0..MaxRecent

\* The messages appended in SpecMemory
MemoryMessages ==
    { Message("user", <<"a">>), Message("assistant", <<"b">>), Message("user", <<"b">>) }

-----------------------------------------------------------------------------
(* Tools and the ToolRegistry: src/uranus/tool/tool_registry.py *)

ToolResult(success, output, data) ==
    [success |-> success, output |-> output, data |-> data]

\* What a call of a tool's execute does: it returns a ToolResult or raises
Returns(r) == [kind |-> "return", exc |-> "", msg |-> <<>>, result |-> r]
Raises(exc, msg) ==
    [kind |-> "raise", exc |-> exc, msg |-> msg, result |-> ToolResult(FALSE, <<>>, None)]

\* A tool: its name and description, the keyword parameters its execute declares
\* (params, those without a default in required, varkw for **kwargs), and
\* whether its get_parameters_schema raises.
Tool(name, description, params, required, varkw, schema_raises) ==
    [name |-> name, description |-> description, params |-> params,
     required |-> required, varkw |-> varkw, schema_raises |-> schema_raises]

SystemInfoTool ==
    Tool(<<"s", "y", "s", "t", "e", "m", "_", "i", "n", "f", "o">>,
         <<"G", "e", "t", " ", "i", "n", "f", "o", "r", "m", "a", "t", "i", "o", "n", " ", "a", "b", "o", "u", "t", " ", "t", "h", "e", " ", "s", "y", "s", "t", "e", "m", ",", " ", "s", "u", "c", "h", " ", "a", "s", " ", "C", "P", "U", ",", " ", "m", "e", "m", "o", "r", "y", ",", " ", "d", "i", "s", "k", " ", "u", "s", "a", "g", "e", ",", " ", "e", "t", "c", ".">>,
         {"info_type"}, {}, FALSE, FALSE)

BrowserTool ==
    Tool(<<"b", "r", "o", "w", "s", "e", "r">>,
         <<"A", " ", "t", "o", "o", "l", " ", "f", "o", "r", " ", "p", "e", "r", "f", "o", "r", "m", "i", "n", "g", " ", "b", "r", "o", "w", "s", "e", "r", " ", "o", "p", "e", "r", "a", "t", "i", "o", "n", "s", " ", "l", "i", "k", "e", " ", "s", "e", "a", "r", "c", "h", "i", "n", "g", " ", "t", "h", "e", " ", "w", "e", "b", ",", " ", "n", "a", "v", "i", "g", "a", "t", "i", "n", "g", " ", "t", "o", " ", "U", "R", "L", "s", ",", " ", "a", "n", "d", " ", "m", "o", "r", "e", ".">>,
         {"action", "url", "query"}, {"action"}, TRUE, FALSE)

\* (of its multi-line description, the leading line)
BrowserUseTool ==
    Tool(<<"b", "r", "o", "w", "s", "e", "r", "_", "u", "s", "e">>,
         <<"I", "n", "t", "e", "r", "a", "c", "t", " ", "w", "i", "t", "h", " ", "a", " ", "w", "e", "b", " ", "b", "r", "o", "w", "s", "e", "r", " ", "t", "o", " ", "p", "e", "r", "f", "o", "r", "m", " ", "v", "a", "r", "i", "o", "u", "s", " ", "a", "c", "t", "i", "o", "n", "s", " ", "s", "u", "c", "h", " ", "a", "s", " ", "n", "a", "v", "i", "g", "a", "t", "i", "o", "n", ",", " ", "e", "l", "e", "m", "e", "n", "t", " ", "i", "n", "t", "e", "r", "a", "c", "t", "i", "o", "n", ",">>,
         {"action", "url", "index", "text", "script", "scroll_amount", "tab_id"},
         {"action"}, FALSE, FALSE)

TerminalTool ==
    Tool(<<"t", "e", "r", "m", "i", "n", "a", "l">>,
         <<"E", "x", "e", "c", "u", "t", "e", " ", "t", "e", "r", "m", "i", "n", "a", "l", " ", "c", "o", "m", "m", "a", "n", "d", "s", " ", "o", "n", " ", "t", "h", "e", " ", "s", "y", "s", "t", "e", "m", ".">>,
         {"command"}, {"command"}, FALSE, FALSE)

FileOperationsTool ==
    Tool(<<"f", "i", "l", "e", "_", "o", "p", "e", "r", "a", "t", "i", "o", "n", "s">>,
         <<"P", "e", "r", "f", "o", "r", "m", " ", "f", "i", "l", "e", " ", "o", "p", "e", "r", "a", "t", "i", "o", "n", "s", " ", "l", "i", "k", "e", " ", "r", "e", "a", "d", "i", "n", "g", ",", " ", "w", "r", "i", "t", "i", "n", "g", ",", " ", "l", "i", "s", "t", "i", "n", "g", " ", "f", "i", "l", "e", "s", ",", " ", "e", "t", "c", ".">>,
         {"operation", "path", "content", "recursive"}, {"operation", "path"},
         FALSE, FALSE)

\* A tool that keeps BaseTool's execute(**kwargs) signature under a given name
CustomTool(name) == Tool(name, <<"c", "u", "s", "t", "o", "m">>, {}, {}, TRUE, FALSE)

\* A tool whose get_parameters_schema raises
BrokenSchemaTool == Tool(<<"b", "r", "o", "k", "e", "n">>, <<"c", "u", "s", "t", "o", "m">>, {}, {}, TRUE, TRUE)

\* The message Python gives a call whose keyword arguments do not fit
TypeErrorMessage == <<"e", "x", "e", "c", "u", "t", "e", "(", ")", " ", "g", "o", "t", " ", "a", "n", " ", "u", "n", "e", "x", "p", "e", "c", "t", "e", "d", " ", "k", "e", "y", "w", "o", "r", "d", " ", "a", "r", "g", "u", "m", "e", "n", "t">>

\* Python's binding of keyword arguments to execute's parameters
SignatureAccepts(tool, kwargs) ==
    /\ tool.required \subseteq DOMAIN kwargs
    /\ tool.varkw \/ DOMAIN kwargs \subseteq tool.params

\* tool.execute(**kwargs): a TypeError when the arguments do not fit, else
\* whatever the tool's body does (outcome)
tool_execute(tool, kwargs, outcome) ==
    IF SignatureAccepts(tool, kwargs) THEN outcome
    ELSE Raises("TypeError", TypeErrorMessage)

\* dict lookup / insertion on the insertion-ordered dict
DictHas(d, key) == \E i \in DOMAIN d : d[i].key = key
DictIndex(d, key) == CHOOSE i \in DOMAIN d : d[i].key = key

\* ToolRegistry.register: self.tools[tool.name] = tool
register_duplicating(reg, tool) == Append(reg, [key |-> tool.name, tool |-> tool])
register_first_wins(reg, tool) ==
    IF DictHas(reg, tool.name) THEN reg
    ELSE Append(reg, [key |-> tool.name, tool |-> tool])
register(reg, tool) ==
    IF DictHas(reg, tool.name)
    THEN [i \in DOMAIN reg |->
            IF reg[i].key = tool.name THEN [key |-> tool.name, tool |-> tool] ELSE reg[i]]
    ELSE Append(reg, [key |-> tool.name, tool |-> tool])

\* ToolRegistry.get: self.tools.get(tool_name)
get(reg, tool_name) ==
    IF DictHas(reg, tool_name) THEN Some(reg[DictIndex(reg, tool_name)].tool) ELSE None

\* ToolRegistry.list_tools: list(self.tools.keys())
list_tools_dropping_last(reg) == [i \in 1..(Len(reg) - 1) |-> reg[i].key]
list_tools(reg) == [i \in DOMAIN reg |-> reg[i].key]

\* ToolRegistry.get_tools_description
get_tools_description(reg) ==
    Join([i \in DOMAIN reg |-> <<"-", " ">> \o reg[i].tool.name \o <<":", " ">> \o reg[i].tool.description],
         <<"\n">>)

\* ToolRegistry.to_params: raises when some tool's get_parameters_schema raises
to_params_raises(reg) == \E i \in DOMAIN reg : reg[i].tool.schema_raises

\* ToolRegistry.execute(name, **kwargs).  raised: an exception leaves execute;
\* invoked: the tools whose execute was called.
registry_execute_propagating(reg, name, kwargs, outcome) ==
    LET found == get(reg, name)
    IN  IF found = None
        THEN [raised |-> FALSE, invoked |-> <<>>,
              result |-> ToolResult(FALSE,
                  <<"T", "o", "o", "l", " ", "'">> \o name \o <<"'", " ", "n", "o", "t", " ", "f", "o", "u", "n", "d", ".", " ", "A", "v", "a", "i", "l", "a", "b", "l", "e", " ", "t", "o", "o", "l", "s", ":", " ">>
                      \o Join(list_tools(reg), <<",", " ">>), None)]
        ELSE LET o == tool_execute(found[1], kwargs, outcome)
             IN  IF o.kind = "return"
                 THEN [raised |-> FALSE, invoked |-> <<name>>, result |-> o.result]
                 ELSE IF o.exc = "ToolError"
                 THEN [raised |-> FALSE, invoked |-> <<name>>,
                       result |-> ToolResult(FALSE, o.msg, None)]
                 ELSE [raised |-> TRUE, invoked |-> <<name>>,
                       result |-> ToolResult(FALSE, <<>>, None)]
registry_execute(reg, name, kwargs, outcome) ==
    LET found == get(reg, name)
    IN  IF found = None
        THEN [raised |-> FALSE, invoked |-> <<>>,
              result |-> ToolResult(FALSE,
                  <<"T", "o", "o", "l", " ", "'">> \o name \o <<"'", " ", "n", "o", "t", " ", "f", "o", "u", "n", "d", ".", " ", "A", "v", "a", "i", "l", "a", "b", "l", "e", " ", "t", "o", "o", "l", "s", ":", " ">>
                      \o Join(list_tools(reg), <<",", " ">>), None)]
        ELSE LET o == tool_execute(found[1], kwargs, outcome)
             IN  IF o.kind = "return"
                 THEN [raised |-> FALSE, invoked |-> <<name>>, result |-> o.result]
                 ELSE IF o.exc = "ToolError"
                 THEN [raised |-> FALSE, invoked |-> <<name>>,
                       result |-> ToolResult(FALSE, o.msg, None)]
                 ELSE [raised |-> FALSE, invoked |-> <<name>>,
                       result |-> ToolResult(FALSE,
                           <<"E", "r", "r", "o", "r", " ", "e", "x", "e", "c", "u", "t", "i", "n", "g", " ", "t", "o", "o", "l", " ", "'">> \o name \o <<"'", ":", " ">> \o o.msg, None)]

-----------------------------------------------------------------------------
(* The agent: src/uranus/agent/base_agent.py, src/uranus/agent/reactive_agent.py *)

\* AgentState.IDLE, the state of a newly constructed agent
AgentStateIDLE == "idle"

\* The system prompt of the agent (tests/test_agent.py)
SystemPrompt == <<"Y", "o", "u", " ", "a", "r", "e", " ", "a", " ", "t", "e", "s", "t", " ", "a", "g", "e", "n", "t", ".">>

\* LLM.ask either returns a completion or raises
LLMReturns(text) == [kind |-> "return", text |-> text]
LLMRaises(msg) == [kind |-> "raise", text |-> msg]

SystemKeywords == { <<"s", "y", "s", "t", "e", "m", " ", "s", "t", "a", "t", "u", "s">>, <<"s", "y", "s", "t", "e", "m", " ", "i", "n", "f", "o">>, <<"s", "y", "s", "t", "e", "m", " ", "i", "n", "f", "o", "r", "m", "a", "t", "i", "o", "n">> }

\* any(keyword in input_text.lower() for keyword in [...])
IsSystemStatusQuery(input_text) ==
    \E keyword \in SystemKeywords : Contains(Lower(input_text), keyword)

TerminalWords == { <<"l", "s">>, <<"p", "w", "d">>, <<"w", "h", "o", "a", "m", "i">>, <<"d", "a", "t", "e">>, <<"h", "o", "s", "t", "n", "a", "m", "e">> }
TerminalPrefixes ==
    { <<"e", "c", "h", "o", " ">>, <<"c", "a", "t", " ">>, <<"g", "r", "e", "p", " ">>, <<"f", "i", "n", "d", " ">>, <<"p", "s", " ">>, <<"m", "k", "d", "i", "r", " ">>, <<"t", "o", "u", "c", "h", " ">> }

IsSearch(input_text) == StartsWith(Lower(input_text), <<"s", "e", "a", "r", "c", "h", " ">>)
IsNavigate(input_text) ==
    StartsWith(Lower(input_text), <<"n", "a", "v", "i", "g", "a", "t", "e", " ", "t", "o", " ">>) \/ StartsWith(Lower(input_text), <<"g", "o", " ", "t", "o", " ">>)
IsOpenUrl(input_text) == StartsWith(Lower(input_text), <<"b", "r", "o", "w", "s", "e", "r", ".", "o", "p", "e", "n", "_", "u", "r", "l">>)
IsTerminalCommand(input_text) ==
    \/ Lower(input_text) \in TerminalWords
    \/ \E p \in TerminalPrefixes : StartsWith(Lower(input_text), p)
IsCreateFile(input_text) ==
    \E p \in { <<"c", "r", "e", "a", "t", "e", " ", "f", "i", "l", "e">>, <<"m", "a", "k", "e", " ", "a", " ", "f", "i", "l", "e">>, <<"m", "a", "k", "e", " ", "f", "i", "l", "e">> } :
        StartsWith(Lower(input_text), p)
IsListFiles(input_text) ==
    \/ \E p \in { <<"l", "i", "s", "t", " ", "f", "i", "l", "e">>, <<"l", "i", "s", "t", " ", "d", "i", "r", "e", "c", "t", "o", "r", "y">> } : StartsWith(Lower(input_text), p)
    \/ Lower(input_text) = <<"l", "s">>

\* The inputs given to run()
Inputs ==
    { <<"s", "y", "s", "t", "e", "m", " ", "s", "t", "a", "t", "u", "s">>, <<"S", "y", "s", "t", "e", "m", " ", "I", "n", "f", "o">>, <<"e", "c", "o", "s", "y", "s", "t", "e", "m", " ", "s", "t", "a", "t", "u", "s">>, <<"s", "e", "a", "r", "c", "h", " ", "s", "y", "s", "t", "e", "m", " ", "s", "t", "a", "t", "u", "s">>,
      <<"s", "e", "a", "r", "c", "h", " ", "c", "a", "t", "s">>, <<"n", "a", "v", "i", "g", "a", "t", "e", " ", "t", "o", " ", "x", ".", "i", "o">>, <<"g", "o", " ", "t", "o", " ", "x", ".", "i", "o">>, <<"g", "o", " ", "t", "o", " ", "s", "y", "s", "t", "e", "m", " ", "i", "n", "f", "o", "r", "m", "a", "t", "i", "o", "n">>,
      <<"b", "r", "o", "w", "s", "e", "r", ".", "o", "p", "e", "n", "_", "u", "r", "l", " ", "x", ".", "i", "o">>, <<"b", "r", "o", "w", "s", "e", "r", ".", "o", "p", "e", "n", "_", "u", "r", "l">>, <<"b", "r", "o", "w", "s", "e", "r", ".", "o", "p", "e", "n", "_", "u", "r", "l", " ", "s", "y", "s", "t", "e", "m", " ", "s", "t", "a", "t", "u", "s">>,
      <<"l", "s">>, <<"L", "S">>, <<"e", "c", "h", "o", " ", "h", "i">>, <<"e", "c", "h", "o", " ", "s", "y", "s", "t", "e", "m", " ", "i", "n", "f", "o">>, <<"c", "r", "e", "a", "t", "e", " ", "f", "i", "l", "e", " ", "a", ".", "t", "x", "t">>,
      <<"m", "a", "k", "e", " ", "a", " ", "f", "i", "l", "e", " ", "b">>, <<"c", "r", "e", "a", "t", "e", " ", "f", "i", "l", "e">>, <<"c", "r", "e", "a", "t", "e", " ", "f", "i", "l", "e", " ", "s", "y", "s", "t", "e", "m", " ", "s", "t", "a", "t", "u", "s">>,
      <<"l", "i", "s", "t", " ", "f", "i", "l", "e", "s">>, <<"l", "i", "s", "t", " ", "d", "i", "r", "e", "c", "t", "o", "r", "y", " ", "x", " ", "s", "u", "b">>, <<"l", "i", "s", "t", " ", "f", "i", "l", "e", "s", " ", "s", "y", "s", "t", "e", "m", " ", "i", "n", "f", "o">>,
      <<"h", "e", "l", "l", "o">>, <<"s", "e", "a", "r", "c", "h", "i", "n", "g">> }

\* The conditions of next_step's if statements, evaluated for each input
Triggers ==
    [t \in Inputs |->
        [system |-> IsSystemStatusQuery(t), search |-> IsSearch(t),
         navigate |-> IsNavigate(t), open_url |-> IsOpenUrl(t),
         terminal |-> IsTerminalCommand(t), create_file |-> IsCreateFile(t),
         list_files |-> IsListFiles(t)]]

\* One step of next_step's try block.  A path through the block ends in one of:
\*   return text (and the messages as they then are),
\*   an exception (caught by next_step's except clause).
\* calls: the tool calls made, in order; llm: the LLM calls made, in order.
Returned(text, msgs, calls, llm) ==
    [end |-> "return", text |-> text, messages |-> msgs, calls |-> calls, llm |-> llm]
Excepted(msg, msgs, calls, llm) ==
    [end |-> "except", text |-> msg, messages |-> msgs, calls |-> calls, llm |-> llm]

\* A tool call made by next_step, with what the tool did
Call(name, kwargs, o) == [tool |-> name, kwargs |-> kwargs, outcome |-> o]

\* A tool call made by a rule, o being what tool.execute(**kwargs) did: on
\* success the rule appends tool_response as an assistant message and returns
\* it; on failure it returns failPrefix + output.
RuleCall(o, name, kwargs, msgs, max, calls, tool_response, failPrefix) ==
    LET calls2 == Append(calls, Call(name, kwargs, o))
    IN  IF o.kind = "raise" THEN Excepted(o.msg, msgs, calls2, <<>>)
        ELSE IF o.result.success
        THEN Returned(tool_response,
                      add_message(msgs, max, Message("assistant", tool_response)),
                      calls2, <<>>)
        ELSE Returned(failPrefix \o o.result.output, msgs, calls2, <<>>)

\* (a sentence that does not name the missing tool)
NotAvailableUnnamed(what) == <<"T", "o", "o", "l", " ", "i", "s", " ", "n", "o", "t", " ", "a", "v", "a", "i", "l", "a", "b", "l", "e", ".", " ", "P", "l", "e", "a", "s", "e", " ", "m", "a", "k", "e", " ", "s", "u", "r", "e", " ", "i", "t", "'", "s", " ", "p", "r", "o", "p", "e", "r", "l", "y", " ", "r", "e", "g", "i", "s", "t", "e", "r", "e", "d", ".">>

NotAvailable(what) ==
    what \o <<" ", "t", "o", "o", "l", " ", "i", "s", " ", "n", "o", "t", " ", "a", "v", "a", "i", "l", "a", "b", "l", "e", ".", " ", "P", "l", "e", "a", "s", "e", " ", "m", "a", "k", "e", " ", "s", "u", "r", "e", " ", "i", "t", "'", "s", " ", "p", "r", "o", "p", "e", "r", "l", "y", " ", "r", "e", "g", "i", "s", "t", "e", "r", "e", "d", ".">>

\* Rule 2: reactive_agent.py lines 43-57
SearchRule(input_text, reg, msgs, max, calls, outcome) ==
    LET browser_tool == get(reg, <<"b", "r", "o", "w", "s", "e", "r">>)
        search_term == Strip(PySliceFrom(input_text, 7))
        tool_response == <<"I", "'", "v", "e", " ", "s", "e", "a", "r", "c", "h", "e", "d", " ", "f", "o", "r", " ", "'">> \o search_term \o <<"'", " ", "i", "n", " ", "t", "h", "e", " ", "b", "r", "o", "w", "s", "e", "r", ".">>
    IN  IF browser_tool # None
        THEN RuleCall(tool_execute(browser_tool[1], [action |-> <<"s", "e", "a", "r", "c", "h">>, query |-> search_term], outcome),
                      <<"b", "r", "o", "w", "s", "e", "r">>, [action |-> <<"s", "e", "a", "r", "c", "h">>, query |-> search_term],
                      msgs, max, calls, tool_response, <<"F", "a", "i", "l", "e", "d", " ", "t", "o", " ", "s", "e", "a", "r", "c", "h", ":", " ">>)
        ELSE Returned(NotAvailable(<<"B", "r", "o", "w", "s", "e", "r">>), msgs, calls, <<>>)

\* Rule 3: reactive_agent.py lines 60-79
NavigateRule(input_text, reg, msgs, max, calls, outcome) ==
    LET browser_tool == get(reg, <<"b", "r", "o", "w", "s", "e", "r">>)
        url == IF StartsWith(Lower(input_text), <<"n", "a", "v", "i", "g", "a", "t", "e", " ", "t", "o", " ">>)
               THEN Strip(PySliceFrom(input_text, 11))
               ELSE Strip(PySliceFrom(input_text, 6))
        tool_response == <<"I", "'", "v", "e", " ", "o", "p", "e", "n", "e", "d", " ">> \o url \o <<" ", "i", "n", " ", "t", "h", "e", " ", "b", "r", "o", "w", "s", "e", "r", ".">>
    IN  IF browser_tool # None
        THEN RuleCall(tool_execute(browser_tool[1], [action |-> <<"n", "a", "v", "i", "g", "a", "t", "e">>, url |-> url], outcome),
                      <<"b", "r", "o", "w", "s", "e", "r">>, [action |-> <<"n", "a", "v", "i", "g", "a", "t", "e">>, url |-> url],
                      msgs, max, calls, tool_response, <<"F", "a", "i", "l", "e", "d", " ", "t", "o", " ", "n", "a", "v", "i", "g", "a", "t", "e", ":", " ">>)
        ELSE Returned(NotAvailable(<<"B", "r", "o", "w", "s", "e", "r">>), msgs, calls, <<>>)

\* Rule 4: reactive_agent.py lines 82-103
OpenUrlRule(input_text, reg, msgs, max, calls, outcome) ==
    LET browser_tool == get(reg, <<"b", "r", "o", "w", "s", "e", "r", "_", "u", "s", "e">>)
        parts == Split(input_text, <<" ">>, 1)
        url == Strip(parts[2])
        tool_response == <<"N", "a", "v", "i", "g", "a", "t", "e", "d", " ", "t", "o", " ">> \o url \o <<" ", "i", "n", " ", "t", "h", "e", " ", "b", "r", "o", "w", "s", "e", "r", ".">>
    IN  IF browser_tool # None
        THEN IF Len(parts) > 1
             THEN RuleCall(tool_execute(browser_tool[1], [action |-> <<"n", "a", "v", "i", "g", "a", "t", "e">>, url |-> url], outcome),
                           <<"b", "r", "o", "w", "s", "e", "r", "_", "u", "s", "e">>, [action |-> <<"n", "a", "v", "i", "g", "a", "t", "e">>, url |-> url],
                           msgs, max, calls, tool_response, <<"F", "a", "i", "l", "e", "d", " ", "t", "o", " ", "o", "p", "e", "n", " ", "U", "R", "L", ":", " ">>)
             ELSE Returned(<<"P", "l", "e", "a", "s", "e", " ", "s", "p", "e", "c", "i", "f", "y", " ", "a", " ", "U", "R", "L", " ", "t", "o", " ", "o", "p", "e", "n", ".">>, msgs, calls, <<>>)
        ELSE Returned(NotAvailable(<<"B", "r", "o", "w", "s", "e", "r", "_", "u", "s", "e">>), msgs, calls, <<>>)

\* (a terminal rule that passes the lower-cased input as the command)
TerminalRuleLoweredCommand(input_text, reg, msgs, max, calls, outcome) ==
    LET terminal_tool == get(reg, <<"t", "e", "r", "m", "i", "n", "a", "l">>)
        result == tool_execute(terminal_tool[1], [command |-> Lower(input_text)], outcome).result
        tool_response == IF result.output = <<>>
                         THEN <<"(", "C", "o", "m", "m", "a", "n", "d", " ", "e", "x", "e", "c", "u", "t", "e", "d", " ", "s", "u", "c", "c", "e", "s", "s", "f", "u", "l", "l", "y", " ", "w", "i", "t", "h", " ", "n", "o", " ", "o", "u", "t", "p", "u", "t", ")">>
                         ELSE result.output
    IN  IF terminal_tool # None
        THEN RuleCall(tool_execute(terminal_tool[1], [command |-> Lower(input_text)], outcome),
                      <<"t", "e", "r", "m", "i", "n", "a", "l">>, [command |-> Lower(input_text)],
                      msgs, max, calls, tool_response, <<"F", "a", "i", "l", "e", "d", " ", "t", "o", " ", "e", "x", "e", "c", "u", "t", "e", " ", "c", "o", "m", "m", "a", "n", "d", ":", " ">>)
        ELSE Returned(NotAvailable(<<"T", "e", "r", "m", "i", "n", "a", "l">>), msgs, calls, <<>>)

\* Rule 5: reactive_agent.py lines 106-121
TerminalRule(input_text, reg, msgs, max, calls, outcome) ==
    LET terminal_tool == get(reg, <<"t", "e", "r", "m", "i", "n", "a", "l">>)
        result == tool_execute(terminal_tool[1], [command |-> input_text], outcome).result
        tool_response == IF result.output = <<>>
                         THEN <<"(", "C", "o", "m", "m", "a", "n", "d", " ", "e", "x", "e", "c", "u", "t", "e", "d", " ", "s", "u", "c", "c", "e", "s", "s", "f", "u", "l", "l", "y", " ", "w", "i", "t", "h", " ", "n", "o", " ", "o", "u", "t", "p", "u", "t", ")">>
                         ELSE result.output
    IN  IF terminal_tool # None
        THEN RuleCall(tool_execute(terminal_tool[1], [command |-> input_text], outcome),
                      <<"t", "e", "r", "m", "i", "n", "a", "l">>, [command |-> input_text],
                      msgs, max, calls, tool_response, <<"F", "a", "i", "l", "e", "d", " ", "t", "o", " ", "e", "x", "e", "c", "u", "t", "e", " ", "c", "o", "m", "m", "a", "n", "d", ":", " ">>)
        ELSE Returned(NotAvailable(<<"T", "e", "r", "m", "i", "n", "a", "l">>), msgs, calls, <<>>)

\* Rule 6: reactive_agent.py lines 124-145
CreateFileRule(input_text, reg, msgs, max, calls, outcome) ==
    LET file_tool == get(reg, <<"f", "i", "l", "e", "_", "o", "p", "e", "r", "a", "t", "i", "o", "n", "s">>)
        parts == Split(Lower(input_text), <<" ", "f", "i", "l", "e", " ">>, 1)
        filename == Strip(parts[2])
        tool_response == <<"C", "r", "e", "a", "t", "e", "d", " ", "f", "i", "l", "e", ":", " ">> \o filename
    IN  IF file_tool # None
        THEN IF Len(parts) > 1
             THEN RuleCall(tool_execute(file_tool[1], [action |-> <<"c", "r", "e", "a", "t", "e">>, name |-> filename, content |-> <<>>], outcome),
                           <<"f", "i", "l", "e", "_", "o", "p", "e", "r", "a", "t", "i", "o", "n", "s">>, [action |-> <<"c", "r", "e", "a", "t", "e">>, name |-> filename, content |-> <<>>],
                           msgs, max, calls, tool_response, <<"F", "a", "i", "l", "e", "d", " ", "t", "o", " ", "c", "r", "e", "a", "t", "e", " ", "f", "i", "l", "e", ":", " ">>)
             ELSE Returned(<<"P", "l", "e", "a", "s", "e", " ", "s", "p", "e", "c", "i", "f", "y", " ", "a", " ", "f", "i", "l", "e", "n", "a", "m", "e", ".">>, msgs, calls, <<>>)
        ELSE Returned(NotAvailable(<<"F", "i", "l", "e", " ", "o", "p", "e", "r", "a", "t", "i", "o", "n", "s">>), msgs, calls, <<>>)

\* Rule 7: reactive_agent.py lines 148-173
ListFilesRule(input_text, reg, msgs, max, calls, outcome) ==
    LET file_tool == get(reg, <<"f", "i", "l", "e", "_", "o", "p", "e", "r", "a", "t", "i", "o", "n", "s">>)
        parts == Split(input_text, <<" ">>, 2)
        path == IF Contains(input_text, <<" ">>) /\ Lower(input_text) # <<"l", "s">> /\ Len(parts) > 2
                THEN Strip(parts[3])
                ELSE <<".">>
        kwargs == [action |-> <<"l", "i", "s", "t">>, path |-> path]
        o == IF file_tool # None THEN tool_execute(file_tool[1], kwargs, outcome)
             ELSE Raises("", <<>>)
        calls2 == Append(calls, Call(<<"f", "i", "l", "e", "_", "o", "p", "e", "r", "a", "t", "i", "o", "n", "s">>, kwargs, o))
        files == IF "files" \in DOMAIN o.result.data[1] THEN o.result.data[1].files ELSE <<>>
        tool_response ==
            IF files # <<>>
            THEN <<"F", "i", "l", "e", "s", " ", "i", "n", " ">> \o path \o <<":", "\n", "\n">> \o Join(files, <<"\n">>)
            ELSE <<"N", "o", " ", "f", "i", "l", "e", "s", " ", "f", "o", "u", "n", "d", " ", "i", "n", " ">> \o path
    IN  IF file_tool = None
        THEN Returned(NotAvailable(<<"F", "i", "l", "e", " ", "o", "p", "e", "r", "a", "t", "i", "o", "n", "s">>), msgs, calls, <<>>)
        ELSE IF o.kind = "raise" THEN Excepted(o.msg, msgs, calls2, <<>>)
        ELSE IF ~o.result.success
        THEN Returned(<<"F", "a", "i", "l", "e", "d", " ", "t", "o", " ", "l", "i", "s", "t", " ", "f", "i", "l", "e", "s", ":", " ">> \o o.result.output, msgs, calls2, <<>>)
        ELSE IF o.result.data = None
        THEN Excepted(<<"'", "N", "o", "n", "e", "T", "y", "p", "e", "'", " ", "o", "b", "j", "e", "c", "t", " ", "h", "a", "s", " ", "n", "o", " ", "a", "t", "t", "r", "i", "b", "u", "t", "e", " ", "'", "g", "e", "t", "'">>, msgs, calls2, <<>>)
        ELSE Returned(tool_response,
                      add_message(msgs, max, Message("assistant", tool_response)),
                      calls2, <<>>)

\* (an LLM rule that asks with the last message only)
LLMRuleLastMessageOnly(reg, msgs, max, calls, completion) ==
    LET enhanced_system_prompt ==
            SystemPrompt \o <<"\n", "\n">> \o <<"Y", "o", "u", " ", "h", "a", "v", "e", " ", "a", "c", "c", "e", "s", "s", " ", "t", "o", " ", "t", "h", "e", " ", "f", "o", "l", "l", "o", "w", "i", "n", "g", " ", "t", "o", "o", "l", "s", ":">>
            \o <<"\n">> \o get_tools_description(reg) \o <<"\n", "\n">>
            \o <<"T", "o", " ", "u", "s", "e", " ", "a", " ", "t", "o", "o", "l", ",", " ", "r", "e", "s", "p", "o", "n", "d", " ", "w", "i", "t", "h", " ", "t", "h", "e", " ", "t", "o", "o", "l", " ", "n", "a", "m", "e", " ", "a", "n", "d", " ", "p", "a", "r", "a", "m", "e", "t", "e", "r", "s", " ", "i", "n", " ", "a", " ", "s", "t", "r", "u", "c", "t", "u", "r", "e", "d", " ", "f", "o", "r", "m", "a", "t", ".">>
        ask == <<[messages |-> PySliceFrom(msgs, 0 - 1), system_prompt |-> enhanced_system_prompt,
                  completion |-> completion]>>
    IN  IF completion.kind = "raise" THEN Excepted(completion.text, msgs, calls, ask)
        ELSE Returned(completion.text,
                      add_message(msgs, max, Message("assistant", completion.text)),
                      calls, ask)

\* Rule 8, the LLM: reactive_agent.py lines 176-188
LLMRule(reg, msgs, max, calls, completion) ==
    LET enhanced_system_prompt ==
            SystemPrompt \o <<"\n", "\n">> \o <<"Y", "o", "u", " ", "h", "a", "v", "e", " ", "a", "c", "c", "e", "s", "s", " ", "t", "o", " ", "t", "h", "e", " ", "f", "o", "l", "l", "o", "w", "i", "n", "g", " ", "t", "o", "o", "l", "s", ":">>
            \o <<"\n">> \o get_tools_description(reg) \o <<"\n", "\n">>
            \o <<"T", "o", " ", "u", "s", "e", " ", "a", " ", "t", "o", "o", "l", ",", " ", "r", "e", "s", "p", "o", "n", "d", " ", "w", "i", "t", "h", " ", "t", "h", "e", " ", "t", "o", "o", "l", " ", "n", "a", "m", "e", " ", "a", "n", "d", " ", "p", "a", "r", "a", "m", "e", "t", "e", "r", "s", " ", "i", "n", " ", "a", " ", "s", "t", "r", "u", "c", "t", "u", "r", "e", "d", " ", "f", "o", "r", "m", "a", "t", ".">>
        ask == <<[messages |-> msgs, system_prompt |-> enhanced_system_prompt,
                  completion |-> completion]>>
    IN  IF completion.kind = "raise" THEN Excepted(completion.text, msgs, calls, ask)
        ELSE Returned(completion.text,
                      add_message(msgs, max, Message("assistant", completion.text)),
                      calls, ask)

\* (the rules with the list-files rule tried before the terminal rule)
RulesListFilesBeforeTerminal(input_text, reg, msgs, max, calls, outcome, completion) ==
    LET trigger == Triggers[input_text]
    IN  IF trigger.search THEN SearchRule(input_text, reg, msgs, max, calls, outcome)
        ELSE IF trigger.navigate THEN NavigateRule(input_text, reg, msgs, max, calls, outcome)
        ELSE IF trigger.open_url THEN OpenUrlRule(input_text, reg, msgs, max, calls, outcome)
        ELSE IF trigger.create_file
        THEN CreateFileRule(input_text, reg, msgs, max, calls, outcome)
        ELSE IF trigger.list_files
        THEN ListFilesRule(input_text, reg, msgs, max, calls, outcome)
        ELSE IF trigger.terminal THEN TerminalRule(input_text, reg, msgs, max, calls, outcome)
        ELSE LLMRule(reg, msgs, max, calls, completion)

\* Rules 2 to 8 in the order of the if statements of next_step
RulesAfterSystemStatus(input_text, reg, msgs, max, calls, outcome, completion) ==
    LET trigger == Triggers[input_text]
    IN  IF trigger.search THEN SearchRule(input_text, reg, msgs, max, calls, outcome)
        ELSE IF trigger.navigate THEN NavigateRule(input_text, reg, msgs, max, calls, outcome)
        ELSE IF trigger.open_url THEN OpenUrlRule(input_text, reg, msgs, max, calls, outcome)
        ELSE IF trigger.terminal THEN TerminalRule(input_text, reg, msgs, max, calls, outcome)
        ELSE IF trigger.create_file
        THEN CreateFileRule(input_text, reg, msgs, max, calls, outcome)
        ELSE IF trigger.list_files
        THEN ListFilesRule(input_text, reg, msgs, max, calls, outcome)
        ELSE LLMRule(reg, msgs, max, calls, completion)

\* (a try block whose rule 1 answers with the failure of system_info)
TryBlockStoppingAtRule1(input_text, reg, msgs, max, sysOutcome, outcome, completion) ==
    LET system_tool == get(reg, <<"s", "y", "s", "t", "e", "m", "_", "i", "n", "f", "o">>)
        o == IF system_tool # None THEN tool_execute(system_tool[1], <<>>, sysOutcome)
             ELSE Raises("", <<>>)
        calls1 == <<Call(<<"s", "y", "s", "t", "e", "m", "_", "i", "n", "f", "o">>, <<>>, o)>>
        tool_response == <<"H", "e", "r", "e", "'", "s", " ", "t", "h", "e", " ", "c", "u", "r", "r", "e", "n", "t", " ", "s", "y", "s", "t", "e", "m", " ", "s", "t", "a", "t", "u", "s", ":">> \o <<"\n", "\n">> \o o.result.output
    IN  IF Triggers[input_text].system /\ system_tool # None
        THEN IF o.kind = "raise" THEN Excepted(o.msg, msgs, calls1, <<>>)
             ELSE IF o.result.success
             THEN Returned(tool_response,
                           add_message(msgs, max, Message("assistant", tool_response)),
                           calls1, <<>>)
             ELSE Returned(<<"F", "a", "i", "l", "e", "d", " ", "t", "o", " ", "g", "e", "t", " ", "s", "y", "s", "t", "e", "m", " ", "s", "t", "a", "t", "u", "s", ":", " ">> \o o.result.output, msgs, calls1, <<>>)
        ELSE RulesAfterSystemStatus(input_text, reg, msgs, max, <<>>, outcome, completion)

\* The try block of next_step: rule 1 (lines 32-40), then the others.
\* sysOutcome is what system_info's execute does, outcome what the tool of a
\* later rule does, completion what the LLM does.
TryBlock(input_text, reg, msgs, max, sysOutcome, outcome, completion) ==
    LET system_tool == get(reg, <<"s", "y", "s", "t", "e", "m", "_", "i", "n", "f", "o">>)
        o == IF system_tool # None THEN tool_execute(system_tool[1], <<>>, sysOutcome)
             ELSE Raises("", <<>>)
        calls1 == <<Call(<<"s", "y", "s", "t", "e", "m", "_", "i", "n", "f", "o">>, <<>>, o)>>
        tool_response == <<"H", "e", "r", "e", "'", "s", " ", "t", "h", "e", " ", "c", "u", "r", "r", "e", "n", "t", " ", "s", "y", "s", "t", "e", "m", " ", "s", "t", "a", "t", "u", "s", ":">> \o <<"\n", "\n">> \o o.result.output
    IN  IF Triggers[input_text].system /\ system_tool # None
        THEN IF o.kind = "raise" THEN Excepted(o.msg, msgs, calls1, <<>>)
             ELSE IF o.result.success
             THEN Returned(tool_response,
                           add_message(msgs, max, Message("assistant", tool_response)),
                           calls1, <<>>)
             ELSE RulesAfterSystemStatus(input_text, reg, msgs, max, calls1, outcome, completion)
        ELSE RulesAfterSystemStatus(input_text, reg, msgs, max, <<>>, outcome, completion)

\* The end of next_step, t being how its try block ended: the except clause
\* (lines 190-193) sets the state and returns "Error: {message}".
next_step_end(t, st) ==
    IF t.end = "except"
    THEN [raised |-> FALSE, caught |-> TRUE, text |-> <<"E", "r", "r", "o", "r", ":", " ">> \o t.text,
          messages |-> t.messages, state |-> "ERROR", calls |-> t.calls, llm |-> t.llm]
    ELSE [raised |-> FALSE, caught |-> FALSE, text |-> t.text,
          messages |-> t.messages, state |-> st, calls |-> t.calls, llm |-> t.llm]

\* next_step from line 28 on, msgs1 being the memory with the user message
next_step_from(input_text, reg, msgs1, max, st, sysOutcome, outcome, completion) ==
    IF to_params_raises(reg)
    THEN [raised |-> TRUE, caught |-> FALSE, text |-> <<"s", "c", "h", "e", "m", "a", " ", "e", "r", "r", "o", "r">>, messages |-> msgs1,
          state |-> st, calls |-> <<>>, llm |-> <<>>]
    ELSE next_step_end(TryBlock(input_text, reg, msgs1, max, sysOutcome, outcome, completion), st)

\* ReactiveAgent.next_step.  raised: an exception leaves next_step (from
\* to_params, which is called before the try block); caught: the except
\* clause of next_step ran.
next_step(input_text, reg, msgs, max, st, sysOutcome, outcome, completion) ==
    next_step_from(input_text, reg, add_message(msgs, max, Message("user", input_text)),
                   max, st, sysOutcome, outcome, completion)

\* The name logger is not bound in base_agent.py: the module imports ABC, typing,
\* pydantic, LLM, Memory, AgentState and ToolRegistry only.
LoggerIsBound == FALSE

\* BaseAgent.run from line 55 on, n being what next_step did
run_end(input_text, n) ==
    LET base == [input |-> input_text, caught |-> n.caught, calls |-> n.calls, llm |-> n.llm,
                 messages |-> n.messages]
    IN  IF n.raised
        THEN IF LoggerIsBound
             THEN [raised |-> FALSE, text |-> <<"E", "r", "r", "o", "r", ":", " ">> \o n.text, state |-> "ERROR"] @@ base
             ELSE [raised |-> TRUE, text |-> <<"n", "a", "m", "e", " ", "'", "l", "o", "g", "g", "e", "r", "'", " ", "i", "s", " ", "n", "o", "t", " ", "d", "e", "f", "i", "n", "e", "d">>,
                   state |-> n.state] @@ base
        ELSE IF Triggers[input_text].system
        THEN [raised |-> FALSE, text |-> n.text, state |-> n.state] @@ base
        ELSE [raised |-> FALSE, text |-> n.text, state |-> "IDLE"] @@ base

\* BaseAgent.run.  raised: an exception leaves run.
run(input_text, reg, msgs, max, sysOutcome, outcome, completion) ==
    run_end(input_text,
            next_step(input_text, reg, msgs, max, "RUNNING", sysOutcome, outcome, completion))

-----------------------------------------------------------------------------
(* The file tools: src/uranus/tool/file_operations.py, src/uranus/tool/file_saver.py *)
(* A path is the sequence of its components below "/".  The file system    *)
(* holds no symbolic links, so Path.resolve() only removes "." and "..".   *)

\* Path.home() / "uranus_workspace"
base_dir == << <<"h", "o", "m", "e">>, <<"u">>, <<"u", "r", "a", "n", "u", "s", "_", "w", "o", "r", "k", "s", "p", "a", "c", "e">> >>

\* str(path)
PathStr(p) ==
    IF p = <<>> THEN <<"/">>
    ELSE Join([i \in 1..(Len(p) + 1) |-> IF i = 1 THEN <<>> ELSE p[i - 1]], <<"/">>)

\* base / text: an absolute text replaces base
JoinPath(base, text) ==
    LET comps == Split(text, <<"/">>, Len(text))
    IN  IF StartsWith(text, <<"/">>) THEN comps ELSE base \o comps

\* Path.resolve(), without symbolic links
RECURSIVE ResolveFrom(_, _)
ResolveFrom(acc, rest) ==
    IF rest = <<>> THEN acc
    ELSE IF Head(rest) = <<>> \/ Head(rest) = <<".">> THEN ResolveFrom(acc, Tail(rest))
    ELSE IF Head(rest) = <<".", ".">>
    THEN ResolveFrom(IF acc = <<>> THEN acc ELSE SubSeq(acc, 1, Len(acc) - 1), Tail(rest))
    ELSE ResolveFrom(Append(acc, Head(rest)), Tail(rest))
Resolve(p) == ResolveFrom(<<>>, p)

\* The path arguments given to the file tools
FilePaths ==
    { <<"a", ".", "t", "x", "t">>, <<"d", "/", "b", ".", "t", "x", "t">>, <<"d">>, <<".">>, <<"d", "/", ".", ".", "/", "a", ".", "t", "x", "t">>,
      <<".", ".", "/", "u", "r", "a", "n", "u", "s", "_", "w", "o", "r", "k", "s", "p", "a", "c", "e", "2", "/", "k", "e", "y">>, <<".", ".", "/", ".", ".", "/", ".", ".", "/", "e", "t", "c", "/", "p", "a", "s", "s", "w", "d">>,
      <<"/", "e", "t", "c", "/", "p", "a", "s", "s", "w", "d">> }

\* (self.base_dir / path).resolve(), evaluated for each path argument
FullPath == [path \in FilePaths |-> Resolve(JoinPath(base_dir, path))]

\* The confinement test of both tools: str(full_path).startswith(str(self.base_dir))
WithinBaseByComponents(full_path) ==
    Len(full_path) >= Len(base_dir) /\ SubSeq(full_path, 1, Len(base_dir)) = base_dir
WithinBase(full_path) == StartsWith(PathStr(full_path), PathStr(base_dir))
Confined == [path \in FilePaths |-> WithinBase(FullPath[path])]

IsPrefixPath(p, q) == Len(p) <= Len(q) /\ SubSeq(q, 1, Len(p)) = p
Parent(p) == SubSeq(p, 1, Len(p) - 1)
Ancestors(p) == {SubSeq(p, 1, n) : n \in 0..Len(p)}

Dir == [kind |-> "dir", content |-> <<>>]
File(content) == [kind |-> "file", content |-> content]

\* (an existence test that sees files only)
ExistsAsFile(f, p) == p \in DOMAIN f /\ f[p].kind = "file"
Exists(f, p) == p \in DOMAIN f
IsFile(f, p) == Exists(f, p) /\ f[p].kind = "file"
IsDir(f, p) == Exists(f, p) /\ f[p].kind = "dir"

\* os.makedirs(p, exist_ok=True) succeeds unless a component of p is a file
CanMakedirs(f, p) == \A a \in Ancestors(p) : ~IsFile(f, a)
Makedirs(f, p) ==
    [q \in DOMAIN f \cup Ancestors(p) |-> IF q \in DOMAIN f THEN f[q] ELSE Dir]

\* os.linesep
linesep == <<"\n">>

\* What a file opened in text mode stores for a text written to it: every
\* "\n" is written as os.linesep
RECURSIVE TextWrite(_)
TextWrite(t) ==
    IF t = <<>> THEN <<>>
    ELSE (IF Head(t) = "\n" THEN linesep ELSE <<Head(t)>>) \o TextWrite(Tail(t))

\* What a file opened in text mode gives for what it stores: "\r\n" and
\* a lone "\r" are read as "\n" (universal newlines)
RECURSIVE TextRead(_)
TextRead(t) ==
    IF t = <<>> THEN <<>>
    ELSE IF Head(t) = "\r"
    THEN <<"\n">> \o (IF Len(t) > 1 /\ t[2] = "\n" THEN TextRead(SubSeq(t, 3, Len(t)))
                                                   ELSE TextRead(Tail(t)))
    ELSE <<Head(t)>> \o TextRead(Tail(t))

\* open(p, "w") / open(p, "a") followed by write(content)
CanOpenForWrite(f, p) == IsDir(f, Parent(p)) /\ ~IsDir(f, p) /\ p # <<>>
WriteFile(f, p, content) ==
    [q \in DOMAIN f \cup {p} |-> IF q = p THEN File(content) ELSE f[q]]

\* os.remove / shutil.rmtree
Remove(f, p) == [q \in DOMAIN f \ {p} |-> f[q]]
\* (an rmtree that removes the directory and leaves what is below it)
RmtreeLeavingEntries(f, p) == [q \in DOMAIN f \ {p} |-> f[q]]
Rmtree(f, p) == [q \in {r \in DOMAIN f : ~IsPrefixPath(p, r)} |-> f[q]]

\* What a call of a file tool did.  error: "" when the call succeeded, else the
\* kind of error; raised: the error left execute as a ToolError; io: the
\* paths the call read, created, modified, listed or deleted.
FileOutcome(tool, operation, path, full_path, recursive, error, raised, data, io) ==
    [tool |-> tool, operation |-> operation, path |-> path, full_path |-> full_path,
     recursive |-> recursive, success |-> (error = ""), error |-> error, raised |-> raised, data |-> data, io |-> io]

NoFileCall == FileOutcome("", "", <<>>, <<>>, FALSE, "", FALSE, <<>>, {})

\* The entries _list_files reports (the order of a directory listing is the
\* operating system's: the entries are kept as a set)
Entries(f, p, recursive) ==
    { q \in DOMAIN f : /\ IsPrefixPath(p, q) /\ q # p
                       /\ (recursive \/ Len(q) = Len(p) + 1) }

\* FileOperationsTool.execute(operation, path, content, recursive): the new
\* file system and the outcome.  content is None or Some(text).
file_operations(f, operation, path, content, recursive) ==
    LET f0 == Makedirs(f, base_dir)
        full_path == FullPath[path]
        out(error, data, io) ==
            FileOutcome("file_operations", operation, path, full_path, recursive, error,
                        error # "", data, io)
    IN  IF ~Confined[path]
        THEN [fs |-> f0, out |-> out("access_denied", <<>>, {})]
        ELSE CASE operation = "read" ->
                 IF ~Exists(f0, full_path) THEN [fs |-> f0, out |-> out("not_found", <<>>, {})]
                 ELSE IF ~IsFile(f0, full_path)
                 THEN [fs |-> f0, out |-> out("not_a_file", <<>>, {})]
                 ELSE [fs |-> f0, out |-> out("", TextRead(f0[full_path].content), {full_path})]
          [] operation = "write" ->
                 IF content = None THEN [fs |-> f0, out |-> out("content_required", <<>>, {})]
                 ELSE IF ~CanMakedirs(f0, Parent(full_path))
                 THEN [fs |-> f0, out |-> out("os_error", <<>>, {})]
                 ELSE IF ~CanOpenForWrite(Makedirs(f0, Parent(full_path)), full_path)
                 THEN [fs |-> Makedirs(f0, Parent(full_path)), out |-> out("os_error", <<>>, {})]
                 ELSE [fs |-> WriteFile(Makedirs(f0, Parent(full_path)), full_path,
                                       TextWrite(content[1])),
                       out |-> out("", content[1], {full_path})]
          [] operation = "list" ->
                 IF ~Exists(f0, full_path) THEN [fs |-> f0, out |-> out("not_found", <<>>, {})]
                 ELSE IF ~IsDir(f0, full_path)
                 THEN [fs |-> f0, out |-> out("not_a_directory", <<>>, {})]
                 ELSE IF \E q \in Entries(f0, full_path, recursive) :
                            ~WithinBaseByComponents(q)
                 THEN [fs |-> f0, out |-> out("os_error", <<>>, {full_path})]
                 ELSE [fs |-> f0,
                       out |-> out("", Entries(f0, full_path, recursive), {full_path})]
          [] operation = "exists" ->
                 [fs |-> f0,
                  out |-> out("", <<Exists(f0, full_path),
                                    IF IsFile(f0, full_path) THEN "file"
                                    ELSE IF IsDir(f0, full_path) THEN "directory" ELSE "">>,
                              {})]
          [] operation = "delete" ->
                 IF ~Exists(f0, full_path) THEN [fs |-> f0, out |-> out("not_found", <<>>, {})]
                 ELSE IF IsFile(f0, full_path)
                 THEN [fs |-> Remove(f0, full_path), out |-> out("", "file", {full_path})]
                 ELSE IF ~recursive
                 THEN [fs |-> f0, out |-> out("recursive_required", <<>>, {})]
                 ELSE [fs |-> Rmtree(f0, full_path), out |-> out("", "directory", {full_path})]
          [] OTHER -> [fs |-> f0, out |-> out("unknown_operation", <<>>, {})]

\* FileSaverTool.execute(content, file_path, mode)
file_saver(f, content, file_path, mode) ==
    LET f0 == Makedirs(f, base_dir)
        full_path == FullPath[file_path]
        out(error, data, io) ==
            FileOutcome("file_saver", mode, file_path, full_path, FALSE, error, FALSE, data, io)
        f1 == Makedirs(f0, Parent(full_path))
        old == IF mode = "a" /\ IsFile(f1, full_path) THEN f1[full_path].content ELSE <<>>
    IN  IF ~Confined[file_path]
        THEN [fs |-> f0, out |-> out("access_denied", <<>>, {})]
        ELSE IF ~CanMakedirs(f0, Parent(full_path))
        THEN [fs |-> f0, out |-> out("os_error", <<>>, {})]
        ELSE IF ~CanOpenForWrite(f1, full_path)
        THEN [fs |-> f1, out |-> out("os_error", <<>>, {})]
        ELSE [fs |-> WriteFile(f1, full_path, old \o TextWrite(content)),
              out |-> out("", <<>>, {full_path})]

-----------------------------------------------------------------------------
(* Initial values *)

\* What a tool's execute may do when the agent or the registry calls it
ToolOutcomes ==
    { Returns(ToolResult(TRUE, <<"S", "y", "s", "t", "e", "m", " ", "I", "n", "f", "o", "r", "m", "a", "t", "i", "o", "n", ":">>, None)),
      Returns(ToolResult(TRUE, <<>>, Some([files |-> << <<"a", ".", "t", "x", "t">>, <<"b">> >>]))),
      Returns(ToolResult(TRUE, <<"d", "o", "n", "e">>, Some(<<>>))),
      Returns(ToolResult(FALSE, <<"n", "o">>, None)),
      Raises("ToolError", <<"d", "e", "n", "i", "e", "d">>),
      Raises("Exception", <<"b", "o", "o", "m">>) }

\* What LLM.ask may do
Completions == { LLMReturns(<<"T", "e", "s", "t", " ", "s", "u", "c", "c", "e", "s", "s", "f", "u", "l">>), LLMRaises(<<"t", "i", "m", "e", "o", "u", "t">>) }

Unused == Raises("", <<>>)
LLMUnused == LLMRaises(<<>>)

MatchesToolRule(input_text) ==
    LET trigger == Triggers[input_text]
    IN  \/ trigger.search \/ trigger.navigate \/ trigger.open_url
        \/ trigger.terminal \/ trigger.create_file \/ trigger.list_files

RECURSIVE RegisterAll(_, _)
RegisterAll(reg, ts) ==
    IF ts = <<>> THEN reg ELSE RegisterAll(register(reg, Head(ts)), Tail(ts))

\* The registries an agent is run with: none of the tools, the tools of
\* tests/test_agent.py, of tests/test_end_to_end.py and of main.py (those
\* next_step looks up), main.py's without system_info, tools that accept any
\* keyword arguments, and a registry holding a tool whose schema raises.
AgentRegistries ==
    { RegisterAll(<<>>, ts) : ts \in
        { <<>>,
          <<SystemInfoTool>>,
          <<SystemInfoTool, FileOperationsTool>>,
          <<SystemInfoTool, FileOperationsTool, BrowserTool, TerminalTool, BrowserUseTool>>,
          <<FileOperationsTool, BrowserTool, TerminalTool, BrowserUseTool>>,
          <<CustomTool(<<"s", "y", "s", "t", "e", "m", "_", "i", "n", "f", "o">>), CustomTool(<<"f", "i", "l", "e", "_", "o", "p", "e", "r", "a", "t", "i", "o", "n", "s">>), CustomTool(<<"b", "r", "o", "w", "s", "e", "r">>),
            CustomTool(<<"t", "e", "r", "m", "i", "n", "a", "l">>), CustomTool(<<"b", "r", "o", "w", "s", "e", "r", "_", "u", "s", "e">>)>>,
          <<SystemInfoTool, BrokenSchemaTool>> } }

\* The tools registered and the names looked up in SpecRegistry
RegistryPool ==
    { SystemInfoTool, TerminalTool, CustomTool(<<"t", "e", "r", "m", "i", "n", "a", "l">>), FileOperationsTool }
RegistryNames == { t.name : t \in RegistryPool } \cup { <<"w", "e", "b", "_", "s", "e", "a", "r", "c", "h">> }
RegistryKwargs == { <<>>, [command |-> <<"l", "s">>] }
RegistryOutcomes ==
    { Returns(ToolResult(TRUE, <<"S", "y", "s", "t", "e", "m", " ", "I", "n", "f", "o", "r", "m", "a", "t", "i", "o", "n", ":">>, None)),
      Returns(ToolResult(FALSE, <<"n", "o">>, None)),
      Raises("ToolError", <<"d", "e", "n", "i", "e", "d">>),
      Raises("Exception", <<"b", "o", "o", "m">>) }

NoExec ==
    [name |-> <<>>, kwargs |-> <<>>, outcome |-> Raises("", <<>>), raised |-> FALSE,
     invoked |-> <<>>, result |-> ToolResult(FALSE, <<>>, None)]

NoRun ==
    [kind |-> "none", input |-> <<>>, text |-> <<>>, caught |-> FALSE, calls |-> <<>>,
     llm |-> <<>>]

\* The file system before the first call: no workspace yet, a sibling
\* directory whose name begins with the workspace's name, and /etc/passwd
InitialFs ==
    LET sibling == << <<"h", "o", "m", "e">>, <<"u">>, <<"u", "r", "a", "n", "u", "s", "_", "w", "o", "r", "k", "s", "p", "a", "c", "e", "2">> >>
    IN  ( <<>> :> Dir ) @@ ( << <<"h", "o", "m", "e">> >> :> Dir ) @@ ( << <<"h", "o", "m", "e">>, <<"u">> >> :> Dir )
        @@ ( sibling :> Dir ) @@ ( Append(sibling, <<"k", "e", "y">>) :> File(<<"k">>) )
        @@ ( << <<"e", "t", "c">> >> :> Dir ) @@ ( << <<"e", "t", "c">>, <<"p", "a", "s", "s", "w", "d">> >> :> File(<<"r">>) )

\* The contents written in SpecFiles
FileContents == { <<"h">> }

\* The texts written in SpecSandbox: one without a line ending, one that ends
\* a line with "\n", with "\r\n" and with "\r"
TextContents == { <<"h">>, <<"a", "\n">>, <<"a", "\r", "\n">>, <<"\r">> }

\* The path arguments that resolve to the sandbox root or below it
SandboxPaths == { p \in FilePaths : WithinBaseByComponents(FullPath[p]) }
MaxFileLen == 2     \* longest file content, reached by FileSaverTool's append mode

-----------------------------------------------------------------------------
(* TerminalTool: src/uranus/tool/terminal.py *)
(* execute is a coroutine: the event loop runs one coroutine at a time and  *)
(* switches to another one at an await only.                                *)

\* os.getcwd() when the class body is evaluated: the default of current_path
InitialWorkingDirectory == << <<"h", "o", "m", "e">>, <<"u">> >>

\* asyncio.Lock(): nobody holds it and nobody waits for it
NewLock == [locked |-> FALSE, waiters |-> <<>>]

\* TerminalTool()
NewTerminal ==
    [constructed |-> TRUE, current_path |-> InitialWorkingDirectory, lock |-> NewLock]
NoTerminal == [constructed |-> FALSE, current_path |-> <<>>, lock |-> NewLock]

\* Lock.acquire does not wait when the lock is free and no call waits for it
CanAcquire(l) == ~l.locked /\ l.waiters = <<>>

\* Lock.acquire by call c: the lock is taken at once, or c joins the waiters
acquire(l, c) ==
    IF CanAcquire(l) THEN [l EXCEPT !.locked = TRUE]
    ELSE [l EXCEPT !.waiters = Append(@, [call |-> c, woken |-> FALSE])]

\* (a release that leaves the lock held)
release_keeping_locked(l) == l

\* Lock.release, at the end of the async with block: the lock is free and
\* the first waiter is woken
release(l) ==
    [locked |-> FALSE,
     waiters |-> IF l.waiters = <<>> THEN <<>> ELSE [l.waiters EXCEPT ![1].woken = TRUE]]

\* The woken waiter continues in Lock.acquire: it leaves the waiters and
\* takes the lock
acquire_woken(l) == [locked |-> TRUE, waiters |-> Tail(l.waiters)]

\* [cmd.strip() for cmd in command.split("&") if cmd.strip()]
commands(command) ==
    LET parts == Split(command, <<"&">>, Len(command))
        NonEmpty(cmd) == cmd # <<>>
    IN  SelectSeq([k \in 1..Len(parts) |-> Strip(parts[k])], NonEmpty)

\* cmd.startswith("cd ")
IsCd(cmd) == StartsWith(cmd, <<"c", "d", " ">>)

\* str(e) of the NotADirectoryError that os.chdir raises
NotADirectory(path) == <<"[", "E", "r", "r", "n", "o", " ", "2", "0", "]", " ", "N", "o", "t", " ", "a", " ", "d", "i", "r", "e", "c", "t", "o", "r", "y", ":", " ", "'">> \o PathStr(path) \o <<"'">>

\* (a cd that stores the path without looking at what it names)
cd_unchecked(current_path, f, cmd) ==
    LET path == Resolve(JoinPath(current_path, Strip(PySliceFrom(cmd, 3))))
    IN  [changed |-> TRUE, path |-> path,
         output |-> <<"C", "h", "a", "n", "g", "e", "d", " ", "d", "i", "r", "e", "c", "t", "o", "r", "y", " ", "t", "o", " ">> \o PathStr(path) \o <<"\n">>,
         error |-> <<>>]

\* A "cd " segment.  changed: os.chdir(path) was called and returned
cd(current_path, f, cmd) ==
    LET path == Resolve(JoinPath(current_path, Strip(PySliceFrom(cmd, 3))))
    IN  IF ~Exists(f, path)
        THEN [changed |-> FALSE, path |-> path, output |-> <<>>,
              error |-> <<"D", "i", "r", "e", "c", "t", "o", "r", "y", " ", "n", "o", "t", " ", "f", "o", "u", "n", "d", ":", " ">> \o PathStr(path) \o <<"\n">>]
        ELSE IF ~IsDir(f, path)
        THEN [changed |-> FALSE, path |-> path, output |-> <<>>,
              error |-> <<"E", "r", "r", "o", "r", " ", "c", "h", "a", "n", "g", "i", "n", "g", " ", "d", "i", "r", "e", "c", "t", "o", "r", "y", ":", " ">> \o NotADirectory(path) \o <<"\n">>]
        ELSE [changed |-> TRUE, path |-> path,
              output |-> <<"C", "h", "a", "n", "g", "e", "d", " ", "d", "i", "r", "e", "c", "t", "o", "r", "y", " ", "t", "o", " ">> \o PathStr(path) \o <<"\n">>,
              error |-> <<>>]

\* (a subprocess that inherits the working directory of the process)
subprocess_cwd_inherited(current_path, process_cwd) == process_cwd

\* cwd=self.current_path
subprocess_cwd(current_path, process_cwd) == current_path

\* What the shell does with cmd in the directory cwd: the bytes it writes to
\* stdout and to stderr, whether they are UTF-8, and its exit status
Subprocess(cmd, cwd) ==
    CASE cmd = <<"p", "w", "d">> -> [stdout |-> PathStr(cwd) \o <<"\n">>, stderr |-> <<>>, utf8 |-> TRUE, returncode |-> 0]
      [] cmd = <<"t", "r", "u", "e">> -> [stdout |-> <<>>, stderr |-> <<>>, utf8 |-> TRUE, returncode |-> 0]
      [] cmd = <<"h", "e", "a", "d", " ", "-", "c", "1", " ", "/", "d", "e", "v", "/", "u", "r", "a", "n", "d", "o", "m">> -> [stdout |-> <<"?">>, stderr |-> <<>>, utf8 |-> FALSE, returncode |-> 0]
      [] cmd = <<"f", "a", "l", "s", "e">> -> [stdout |-> <<>>, stderr |-> <<>>, utf8 |-> TRUE, returncode |-> 1]
      [] OTHER -> [stdout |-> <<>>, stderr |-> <<"s", "h", ":", " ", "1", ":", " ">> \o cmd \o <<":", " ", "n", "o", "t", " ", "f", "o", "u", "n", "d">> \o <<"\n">>,
                   utf8 |-> TRUE, returncode |-> 127]

\* str(e) of the UnicodeDecodeError of bytes.decode(), and of the OSError of
\* create_subprocess_shell
DecodeError == <<"'", "u", "t", "f", "-", "8", "'", " ", "c", "o", "d", "e", "c", " ", "c", "a", "n", "'", "t", " ", "d", "e", "c", "o", "d", "e", " ", "b", "y", "t", "e", " ", "0", "x", "f", "f", " ", "i", "n", " ", "p", "o", "s", "i", "t", "i", "o", "n", " ", "0", ":", " ", "i", "n", "v", "a", "l", "i", "d", " ", "s", "t", "a", "r", "t", " ", "b", "y", "t", "e">>
SpawnError == <<"[", "E", "r", "r", "n", "o", " ", "1", "1", "]", " ", "R", "e", "s", "o", "u", "r", "c", "e", " ", "t", "e", "m", "p", "o", "r", "a", "r", "i", "l", "y", " ", "u", "n", "a", "v", "a", "i", "l", "a", "b", "l", "e">>

\* (an output that puts the newest text first)
prepend_output(final, text) == text \o final

\* final_output += text
append_output(final, text) == final \o text

\* The result of a call whose segments all ran
terminal_result(final_output, final_error, current_path) ==
    ToolResult(TRUE, Strip(final_output),
               Some([error |-> Strip(final_error), current_path |-> PathStr(current_path)]))

\* The result of a call in which a segment raised e
terminal_failure(e) == ToolResult(FALSE, <<"E", "r", "r", "o", "r", " ", "e", "x", "e", "c", "u", "t", "i", "n", "g", " ", "c", "o", "m", "m", "a", "n", "d", ":", " ">> \o e, None)

\* The commands given to execute
TerminalCommands ==
    { <<"p", "w", "d">>, <<"c", "d", " ", "/", "e", "t", "c", " ", "&", " ", "p", "w", "d">>, <<"c", "d", " ", ".", ".", " ", "&", "&", " ", "t", "r", "u", "e", " ", "&", " ", "p", "w", "d">>, <<"c", "d", " ", "n", "o", "w", "h", "e", "r", "e", " ", "&", " ", "c", "d", " ", "/", "e", "t", "c", "/", "p", "a", "s", "s", "w", "d", "&", " ", "l", "s", " ">>,
      <<"c", "d", " ", "u", "r", "a", "n", "u", "s", "_", "w", "o", "r", "k", "s", "p", "a", "c", "e", "2", " ", "&", " ", "h", "e", "a", "d", " ", "-", "c", "1", " ", "/", "d", "e", "v", "/", "u", "r", "a", "n", "d", "o", "m">>,
      <<"f", "a", "l", "s", "e", " ", "&", " ", "n", "o", "c", "m", "d", " ", "&", " ", "p", "w", "d">> }

\* commands(command), evaluated for each command
TerminalSegments == [command \in TerminalCommands |-> commands(command)]

Terminals == {"t1", "t2"}
MaxCalls == 2       \* execute calls made on all TerminalTool instances in SpecTerminal
CallIds == 1..MaxCalls

\* An execute call that was not made yet.  pc, the await at which the call
\* is: "idle", "waiting" (for the lock), "communicate" (for the subprocess
\* of segment i), "done"
NoCall ==
    [tool |-> "", command |-> <<>>, pc |-> "idle", i |-> 0, final_output |-> <<>>,
     final_error |-> <<>>, process |-> None, result |-> None]

\* One entry of termLog: what call c did at its segment i
Event(c, i, kind, path, text) ==
    [call |-> c, seg |-> i, kind |-> kind, path |-> path, text |-> text]

-----------------------------------------------------------------------------
(* PythonExecuteTool: src/uranus/tool/python_execute.py *)
(* A code is given by what the interpreter does with it: the names it looks *)
(* up, what it prints, what it computes without printing, how it ends       *)
(* ("returns", "raises" an Exception, "exits" with a SystemExit, "never")   *)
(* and whether it makes the process ignore SIGTERM.                         *)

Code(source, names, prints, computes, ends, message, ignores_sigterm) ==
    [source |-> source, names |-> names, prints |-> prints, computes |-> computes,
     ends |-> ends, message |-> message, ignores_sigterm |-> ignores_sigterm]

\* The code arguments given to execute
PythonCodes ==
    { Code(<<"p", "r", "i", "n", "t", "(", "'", "x", "'", ")">>, { <<"p", "r", "i", "n", "t">> }, <<"x", "\n">>, <<>>, "returns", <<>>, FALSE),
      Code(<<"x", " ", "=", " ", "1", " ", "+", " ", "1">>, {}, <<>>, <<"2">>, "returns", <<>>, FALSE),
      Code(<<"1", "/", "0">>, {}, <<>>, <<>>, "raises", <<"d", "i", "v", "i", "s", "i", "o", "n", " ", "b", "y", " ", "z", "e", "r", "o">>, FALSE),
      Code(<<"p", "r", "i", "n", "t", "(", "l", "e", "n", "(", "'", "a", "b", "'", ")", ")">>, { <<"p", "r", "i", "n", "t">>, <<"l", "e", "n">> }, <<"2", "\n">>, <<>>, "returns", <<>>, FALSE),
      Code(<<"p", "r", "i", "n", "t", "(", "'", "a", "'", ")", ";", " ", "r", "a", "i", "s", "e", " ", "p", "r", "i", "n", "t", ".", "_", "_", "s", "e", "l", "f", "_", "_", ".", "S", "y", "s", "t", "e", "m", "E", "x", "i", "t", "(", "'", "b", "y", "e", "'", ")">>, { <<"p", "r", "i", "n", "t">> },
           <<"a", "\n">>, <<>>, "exits", <<"b", "y", "e">>, FALSE),
      Code(<<"w", "h", "i", "l", "e", " ", "T", "r", "u", "e", ":", " ", "p", "a", "s", "s">>, {}, <<>>, <<>>, "never", <<>>, FALSE),
      Code(<<"s", " ", "=", " ", "r", "a", "n", "d", "o", "m", ".", "_", "o", "s", ".", "s", "y", "s", ".", "m", "o", "d", "u", "l", "e", "s", "[", "'", "s", "i", "g", "n", "a", "l", "'", "]", ";", " ", "s", ".", "s", "i", "g", "n", "a", "l", "(", "s", ".", "S", "I", "G", "T", "E", "R", "M", ",", " ", "s", ".", "S", "I", "G", "_", "I", "G", "N", ")", "\n", "w", "h", "i", "l", "e", " ", "T", "r", "u", "e", ":", " ", "p", "a", "s", "s">>, { <<"r", "a", "n", "d", "o", "m">> }, <<>>, <<>>, "never", <<>>, TRUE) }

\* dir(__builtins__) in a module that is imported, where __builtins__ is the
\* dict of the builtins: the attributes of a dict
DirBuiltins ==
    { <<"c", "l", "e", "a", "r">>, <<"c", "o", "p", "y">>, <<"f", "r", "o", "m", "k", "e", "y", "s">>, <<"g", "e", "t">>, <<"i", "t", "e", "m", "s">>, <<"k", "e", "y", "s">>, <<"p", "o", "p">>, <<"p", "o", "p", "i", "t", "e", "m">>,
      <<"s", "e", "t", "d", "e", "f", "a", "u", "l", "t">>, <<"u", "p", "d", "a", "t", "e">>, <<"v", "a", "l", "u", "e", "s">> }

\* The names that execute leaves out of the builtins it hands to the code
DeniedBuiltins ==
    { <<"o", "p", "e", "n">>, <<"e", "x", "e", "c">>, <<"e", "v", "a", "l">>, <<"c", "o", "m", "p", "i", "l", "e">>, <<"_", "_", "i", "m", "p", "o", "r", "t", "_", "_">>, <<"i", "n", "p", "u", "t">>, <<"m", "e", "m", "o", "r", "y", "v", "i", "e", "w">> }

\* The names the code can look up: safe_globals and its "__builtins__"
safe_globals ==
    (DirBuiltins \ DeniedBuiltins)
        \cup { <<"p", "r", "i", "n", "t">>, <<"m", "a", "t", "h">>, <<"r", "a", "n", "d", "o", "m">>, <<"d", "a", "t", "e", "t", "i", "m", "e">>, <<"j", "s", "o", "n">>, <<"r", "e">> }

\* str(e) of the NameError for a name that is not found
NameError(name) == <<"n", "a", "m", "e", " ", "'">> \o name \o <<"'", " ", "i", "s", " ", "n", "o", "t", " ", "d", "e", "f", "i", "n", "e", "d">>

\* exec(code, safe_globals, safe_globals): what the code does with the names
\* it can look up
exec(code, globals) ==
    IF code.names \subseteq globals THEN code
    ELSE [code EXCEPT !.prints = <<>>, !.computes = <<>>, !.ends = "raises",
                      !.message = NameError(CHOOSE n \in code.names : n \notin globals)]

\* (a result_dict that starts as a success)
NewResultDictSucceeded == [observation |-> <<>>, success |-> TRUE]

\* result_dict as execute creates it
NewResultDict == [observation |-> <<>>, success |-> FALSE]

\* (a worker that adds the computed value to what was printed)
run_code_with_value(code, result_dict, globals) ==
    IF exec(code, globals).ends = "returns"
    THEN [observation |-> exec(code, globals).prints \o exec(code, globals).computes,
          success |-> TRUE]
    ELSE IF exec(code, globals).ends = "raises"
    THEN [observation |-> exec(code, globals).message, success |-> FALSE]
    ELSE result_dict

\* PythonExecuteTool._run_code, for a code that ends: result_dict when the
\* worker has ended
run_code(code, result_dict, globals) ==
    IF exec(code, globals).ends = "returns"
    THEN [observation |-> exec(code, globals).prints, success |-> TRUE]
    ELSE IF exec(code, globals).ends = "raises"
    THEN [observation |-> exec(code, globals).message, success |-> FALSE]
    ELSE result_dict

\* str(timeout)
IntStr(n) == CASE n = 1 -> <<"1">> [] n = 5 -> <<"5">> [] OTHER -> <<"?">>

\* The timeout arguments given to execute
Timeouts == {1, 5}

\* The results of execute
timed_out(timeout) ==
    ToolResult(FALSE, <<"E", "x", "e", "c", "u", "t", "i", "o", "n", " ", "t", "i", "m", "e", "d", " ", "o", "u", "t", " ", "a", "f", "t", "e", "r", " ">> \o IntStr(timeout) \o <<" ", "s", "e", "c", "o", "n", "d", "s">>, None)
relayed(result_dict) ==
    IF result_dict.success THEN ToolResult(TRUE, result_dict.observation, None)
    ELSE ToolResult(FALSE, <<"E", "r", "r", "o", "r", " ", "e", "x", "e", "c", "u", "t", "i", "n", "g", " ", "c", "o", "d", "e", ":", " ">> \o result_dict.observation, None)
start_failed(e) == ToolResult(FALSE, <<"E", "r", "r", "o", "r", ":", " ">> \o e, None)

\* str(e) of the OSError of multiprocessing.Manager() and of process.start()
ForkError == <<"[", "E", "r", "r", "n", "o", " ", "1", "1", "]", " ", "R", "e", "s", "o", "u", "r", "c", "e", " ", "t", "e", "m", "p", "o", "r", "a", "r", "i", "l", "y", " ", "u", "n", "a", "v", "a", "i", "l", "a", "b", "l", "e">>

\* The execute call before it is made.  pc: "idle", "join" (in
\* process.join(timeout)), "blocked" (in process.join() after terminate()),
\* "returned", "raised" (an exception left execute)
NoPyCall ==
    [pc |-> "idle", code |-> Code(<<>>, {}, <<>>, <<>>, "returns", <<>>, FALSE), timeout |-> 0,
     result |-> None, error |-> <<>>]

\* PythonExecuteTool._run_code in a worker that is killed from outside
\* before it stored the success: before it stored anything, or between the
\* two stores to result_dict
run_code_killed(code, result_dict, globals, stored) ==
    IF ~stored \/ exec(code, globals).ends \notin {"returns", "raises"} THEN result_dict
    ELSE [result_dict EXCEPT
             !.observation = IF exec(code, globals).ends = "returns"
                             THEN exec(code, globals).prints
                             ELSE exec(code, globals).message]

\* The worker process before it is started.  state: "none", "running",
\* "exited", "killed" (by a signal from outside), "terminated" (by execute)
NoWorker == [state |-> "none", result_dict |-> NewResultDict]

MaxTicks == 2       \* steps another coroutine of the event loop makes in SpecPython

-----------------------------------------------------------------------------
(* The flow: src/uranus/flow/base_flow.py, src/uranus/flow/sequential_flow.py *)

\* The names of the agents a flow is constructed with, and a name that no
\* agent has
AgentNames == {"a", "b"}
FlowKeys == AgentNames \cup {"ghost"}

MaxSequence == 3    \* length of the agent_sequence given to SequentialFlow in SpecFlow

\* The sequences over a set, up to a length
SeqsUpTo(S, n) == UNION { [1..m -> S] : m \in 0..n }

\* The lists of agents given to SequentialFlow(agents), by name
AgentLists == { <<>>, <<"a">>, <<"a", "b">>, <<"b", "a">>, <<"a", "a">> }

\* BaseFlow.__init__ with a list: agents_dict[agent.name] = agent for each
\* agent; the keys of the dict, in insertion order
RECURSIVE agents_dict(_)
agents_dict(agents) ==
    IF agents = <<>> THEN <<>>
    ELSE LET before == agents_dict(SubSeq(agents, 1, Len(agents) - 1))
             name == agents[Len(agents)]
         IN  IF \E i \in DOMAIN before : before[i] = name THEN before
             ELSE Append(before, name)

\* agent_key in self.agents
InAgents(f, agent_key) == \E i \in DOMAIN f.agents : f.agents[i] = agent_key

\* The input texts given to execute, and the texts an agent's run returns
FlowInputs == { <<"h", "i">>, <<"y", "o">> }
AgentTexts == { <<"x">>, <<"E", "r", "r", "o", "r", ":", " ", "b", "o", "o", "m">> }

\* str(e) of the NameError that leaves BaseAgent.run when next_step raises
RunError == <<"n", "a", "m", "e", " ", "'", "l", "o", "g", "g", "e", "r", "'", " ", "i", "s", " ", "n", "o", "t", " ", "d", "e", "f", "i", "n", "e", "d">>

\* A flow that was not constructed.  pc, where its execute call is: "idle",
\* "run" (awaiting the run of agent_sequence[k]), "done"
NoFlow ==
    [constructed |-> FALSE, agents |-> <<>>, agent_sequence |-> <<>>, pc |-> "idle",
     input_text |-> <<>>, k |-> 0, current_input |-> <<>>, results |-> <<>>,
     result |-> None]

\* SequentialFlow.__init__
NewFlow(agents, agent_sequence) ==
    [NoFlow EXCEPT !.constructed = TRUE,
                   !.agents = agents_dict(agents),
                   !.agent_sequence = IF agent_sequence = <<>> THEN agents_dict(agents)
                                      ELSE agent_sequence]

\* One entry of flowLog: agent.run(input) was called and returned or raised
FlowRun(agent, input, kind, text) ==
    [agent |-> agent, input |-> input, kind |-> kind, text |-> text]

\* (a flow that gives every agent the input of the one before it)
keep_input(current_input, result) == current_input

\* current_input = result
use_result(current_input, result) == result

\* The except clause of execute
flow_failed(f, e) ==
    [f EXCEPT !.pc = "done", !.result = Some(<<"E", "x", "e", "c", "u", "t", "i", "o", "n", " ", "f", "a", "i", "l", "e", "d", ":", " ">> \o e)]

\* "for agent_key in self.agent_sequence", from index k on, up to the await
\* of an agent's run or to the return
RECURSIVE for_agent_key(_, _)
for_agent_key(f, k) ==
    IF k > Len(f.agent_sequence)
    THEN [f EXCEPT !.pc = "done", !.k = k,
                   !.result = Some(Join(f.results, <<"\n", "\n">>))]
    ELSE IF ~InAgents(f, f.agent_sequence[k])
    THEN for_agent_key(f, k + 1)
    ELSE [f EXCEPT !.pc = "run", !.k = k]

-----------------------------------------------------------------------------
(* The configuration: src/uranus/core/config.py *)

MaxThreads == 2         \* threads that call Config() in SpecConfig
MaxConfigCalls == 2     \* Config() calls made by one thread in SpecConfig
Threads == 1..MaxThreads

\* The class before any call: _instance = None, _lock free, _initialized
\* False; instances counts the objects super().__new__ made and loads the
\* calls of _load_initial_config
NewConfigClass ==
    [_instance |-> None, _lock |-> 0, _initialized |-> FALSE, instances |-> 0, loads |-> 0]

\* A thread that has not called Config().  pc, where its call is: "idle",
\* "new" (at "if cls._instance is None"), "lock" (at "with cls._lock"),
\* "locked" (inside it), "init" (at "if self._initialized"), "load" (at
\* _load_initial_config), "set" (at "self._initialized = True"), "done"
NoThread == [pc |-> "idle", calls |-> 0, self |-> None, returned |-> None]

MemInit ==
    /\ messages = <<>> /\ max_messages = DefaultMaxMessages /\ appended = <<>>
    /\ memCall = NoMemoryCall
\* The coroutines that call run() on one agent in SpecOverlap
Coros == {"A", "B"}

\* The inputs given to run() in SpecOverlap: one for the LLM, one for the
\* terminal rule, one for the system-status rule, one that no rule passes
\* to a tool or to the LLM
OverlapInputs == { <<"h", "e", "l", "l", "o">>, <<"l", "s">>, <<"s", "y", "s", "t", "e", "m", " ", "s", "t", "a", "t", "u", "s">>, <<"c", "r", "e", "a", "t", "e", " ", "f", "i", "l", "e">> }

\* A run() call that was not made yet.  pc: "idle", "awaiting" (suspended
\* at the await of a tool's execute or of LLM.ask), "returned", "raised"
NoCoro == [pc |-> "idle", input |-> <<>>, text |-> <<>>]

\* run(input_text) calls a tool's execute or LLM.ask, where the coroutine
\* can be suspended (whether it is called depends on the input and on the
\* registry, not on what the call does)
ReachesAwait(input_text, reg) ==
    LET n == next_step(input_text, reg, <<>>, DefaultMaxMessages, "RUNNING",
                       Unused, Unused, LLMUnused)
    IN  ~n.raised /\ (n.calls # <<>> \/ n.llm # <<>>)

RegInit == tools = <<>> /\ registered = <<>> /\ execResult = NoExec
AgentInit ==
    /\ state = AgentStateIDLE /\ runs = 0 /\ lastRun = NoRun
    /\ coros = [c \in Coros |-> NoCoro]
FileInit == fs = InitialFs /\ fileResult = NoFileCall
TermInit ==
    /\ terminals = [t \in Terminals |-> IF t = "t1" THEN NewTerminal ELSE NoTerminal]
    /\ os_cwd = InitialWorkingDirectory
    /\ executes = [c \in CallIds |-> NoCall]
    /\ termLog = [t \in Terminals |-> <<>>]
PyInit ==
    /\ pyexec = NoPyCall
    /\ worker = NoWorker
    /\ loop = [running |-> "", ticks |-> 0]
FlowInit == flow = NoFlow /\ flowLog = <<>>
CfgInit == config = NewConfigClass /\ threads = [t \in Threads |-> NoThread]

-----------------------------------------------------------------------------
(* Spec: an agent, constructed with one of AgentRegistries, is run *)

\* The memory an agent is constructed with: the default, empty one, or one
\* that holds an earlier exchange
AgentMemories ==
    { <<>>, << Message("user", <<"h", "i">>), Message("assistant", <<"H", "e", "l", "l", "o", "!">>) >> }

Init ==
    /\ messages \in AgentMemories /\ max_messages = DefaultMaxMessages /\ appended = <<>>
    /\ memCall = NoMemoryCall
    /\ AgentInit /\ FileInit /\ TermInit /\ PyInit /\ FlowInit /\ CfgInit
    /\ tools \in AgentRegistries
    /\ registered = <<>>
    /\ execResult = NoExec
    /\ lastOp = "init"

\* The agent's fields after a run that did r
Ran(r) ==
    /\ messages' = r.messages
    /\ state' = r.state
    /\ lastRun' = [kind |-> IF r.raised THEN "raised" ELSE "returned",
                   input |-> r.input, text |-> r.text, caught |-> r.caught,
                   calls |-> r.calls, llm |-> r.llm]

\* A run of the agent.  What the tools and the LLM do is chosen only where
\* the input can reach them: system_info's execute for a system-status
\* query, another tool's for an input that matches one of rules 2 to 7, the
\* LLM's for an input that matches none of them.
Run ==
    /\ runs < MaxRuns
    /\ \E input_text \in Inputs :
       \E sysOutcome \in IF Triggers[input_text].system THEN ToolOutcomes ELSE {Unused},
          outcome \in IF MatchesToolRule(input_text) THEN ToolOutcomes ELSE {Unused},
          completion \in IF MatchesToolRule(input_text) THEN {LLMUnused} ELSE Completions :
           Ran(run(input_text, tools, messages, max_messages,
                   sysOutcome, outcome, completion))
    /\ runs' = runs + 1
    /\ lastOp' = "run"
    /\ UNCHANGED <<max_messages, appended, memCall, coros, regVars, fileVars, termVars, pyVars, flowVars, cfgVars>>

Next == Run

Spec == Init /\ [][Next]_vars

-----------------------------------------------------------------------------
(* SpecOverlap: two coroutines of one event loop call run() on the same     *)
(* agent.  A run is suspended only at an await: from its call to the await  *)
(* of a tool's execute or of LLM.ask it is one step, and from there to its  *)
(* return another (a second await of the same run is taken with the first). *)

InitOverlap ==
    /\ MemInit /\ AgentInit /\ FileInit /\ TermInit /\ PyInit /\ FlowInit /\ CfgInit
    /\ tools \in AgentRegistries
    /\ registered = <<>>
    /\ execResult = NoExec
    /\ lastOp = "init"

OverlapOtherVarsUnchanged ==
    UNCHANGED <<max_messages, appended, memCall, runs, lastRun, regVars, fileVars, termVars, pyVars, flowVars, cfgVars>>

\* The fields of the agent and the position of coroutine c after a step
Overlapped(c, pc, input_text, text, msgs, st) ==
    /\ coros' = [coros EXCEPT ![c] = [pc |-> pc, input |-> input_text, text |-> text]]
    /\ messages' = msgs
    /\ state' = st

\* Coroutine c calls run(input_text): lines 51 of base_agent.py and 25 of
\* reactive_agent.py, then up to the first await, or to the end of run when
\* there is none
RunBegins(c) ==
    /\ coros[c].pc = "idle"
    /\ \E input_text \in OverlapInputs :
          IF ReachesAwait(input_text, tools)
          THEN Overlapped(c, "awaiting", input_text, <<>>,
                          add_message(messages, max_messages, Message("user", input_text)),
                          "RUNNING")
          ELSE LET r == run(input_text, tools, messages, max_messages,
                            Unused, Unused, LLMUnused)
               IN  Overlapped(c, IF r.raised THEN "raised" ELSE "returned", input_text,
                              r.text, r.messages, r.state)
    /\ lastOp' = "run_begins"
    /\ OverlapOtherVarsUnchanged

\* The call that coroutine c awaits ends: next_step goes on with the memory
\* and the state as they are now, and run returns
RunResumes(c) ==
    /\ coros[c].pc = "awaiting"
    /\ LET input_text == coros[c].input
       IN  \E sysOutcome \in IF Triggers[input_text].system THEN ToolOutcomes ELSE {Unused},
              outcome \in IF MatchesToolRule(input_text) THEN ToolOutcomes ELSE {Unused},
              completion \in IF MatchesToolRule(input_text) THEN {LLMUnused} ELSE Completions :
               LET r == run_end(input_text,
                                next_step_from(input_text, tools, messages, max_messages,
                                               state, sysOutcome, outcome, completion))
               IN  Overlapped(c, IF r.raised THEN "raised" ELSE "returned", input_text,
                              r.text, r.messages, r.state)
    /\ lastOp' = "run_resumes"
    /\ OverlapOtherVarsUnchanged

NextOverlap == \E c \in Coros : RunBegins(c) \/ RunResumes(c)

SpecOverlap == InitOverlap /\ [][NextOverlap]_vars

-----------------------------------------------------------------------------
(* SpecMemory: messages are added to a Memory of some max_messages *)

InitMemory ==
    /\ messages = <<>> /\ appended = <<>> /\ memCall = NoMemoryCall
    /\ max_messages \in 0..MaxCap
    /\ RegInit /\ AgentInit /\ FileInit /\ TermInit /\ PyInit /\ FlowInit /\ CfgInit
    /\ lastOp = "init"

AddMessage ==
    \E m \in MemoryMessages :
        /\ Len(appended) < MaxAppends
        /\ messages' = add_message(messages, max_messages, m)
        /\ appended' = Append(appended, m)
        /\ lastOp' = "add_message"
        /\ UNCHANGED <<max_messages, memCall, regVars, agentVars, fileVars, termVars, pyVars, flowVars, cfgVars>>

\* Memory.clear
Clear ==
    /\ messages # <<>>
    /\ messages' = <<>>
    /\ appended' = <<>>
    /\ lastOp' = "clear"
    /\ UNCHANGED <<max_messages, memCall, regVars, agentVars, fileVars, termVars, pyVars, flowVars, cfgVars>>

\* Memory.add_user_message(content), add_system_message(content),
\* add_assistant_message(content), add_tool_message(content, name)
AddRoleMessage ==
    \E m \in RoleMessages :
        LET r == add_role_message(messages, max_messages, m)
        IN  /\ Len(appended) < MaxAppends
            /\ messages' = r.messages
            /\ appended' = IF r.raised = "" THEN Append(appended, m) ELSE appended
            /\ memCall' = MemoryCall(MethodOf[m.role], 0, Some(m), <<>>, r.raised)
            /\ lastOp' = "add_role_message"
            /\ UNCHANGED <<max_messages, regVars, agentVars, fileVars, termVars, pyVars, flowVars, cfgVars>>

\* Memory.get_recent_messages(n)
GetRecentMessages ==
    \E n \in 0..MaxRecent :
        /\ memCall' = MemoryCall("get_recent_messages", n, None,
                                 get_recent_messages(messages, n), "")
        /\ lastOp' = "get_recent_messages"
        /\ UNCHANGED <<messages, max_messages, appended, regVars, agentVars, fileVars, termVars, pyVars, flowVars, cfgVars>>

NextMemory == AddMessage \/ Clear \/ AddRoleMessage \/ GetRecentMessages

SpecMemory == InitMemory /\ [][NextMemory]_vars

-----------------------------------------------------------------------------
(* SpecRegistry: tools are registered, looked up and executed by name *)

InitRegistry == MemInit /\ RegInit /\ AgentInit /\ FileInit /\ TermInit /\ PyInit /\ FlowInit /\ CfgInit /\ lastOp = "init"

Register ==
    \E tool \in RegistryPool :
        /\ Len(registered) < MaxRegisters
        /\ tools' = register(tools, tool)
        /\ registered' = Append(registered, tool)
        /\ lastOp' = "register"
        /\ UNCHANGED <<execResult, memVars, agentVars, fileVars, termVars, pyVars, flowVars, cfgVars>>

Execute ==
    \E name \in RegistryNames, kwargs \in RegistryKwargs, outcome \in RegistryOutcomes :
        /\ execResult' = [name |-> name, kwargs |-> kwargs, outcome |-> outcome]
                         @@ registry_execute(tools, name, kwargs, outcome)
        /\ lastOp' = "execute"
        /\ UNCHANGED <<tools, registered, memVars, agentVars, fileVars, termVars, pyVars, flowVars, cfgVars>>

NextRegistry == Register \/ Execute

SpecRegistry == InitRegistry /\ [][NextRegistry]_vars

-----------------------------------------------------------------------------
(* SpecFiles: the file tools are called on paths inside and outside the workspace *)

InitFiles == MemInit /\ RegInit /\ AgentInit /\ FileInit /\ TermInit /\ PyInit /\ FlowInit /\ CfgInit /\ lastOp = "init"

\* content is given to write only and recursive to list and delete only; the
\* other calls leave them at their defaults (None, False)
FileOperationsOn(paths, contents) ==
    \E operation \in {"read", "write", "list", "exists", "delete", "copy"},
       path \in paths :
    \E content \in IF operation = "write" THEN {None} \cup {Some(c) : c \in contents}
                   ELSE {None},
       recursive \in IF operation \in {"list", "delete"} THEN BOOLEAN ELSE {FALSE} :
        /\ LET r == file_operations(fs, operation, path, content, recursive)
           IN  fs' = r.fs /\ fileResult' = r.out
        /\ lastOp' = "file_operations"
        /\ UNCHANGED <<memVars, regVars, agentVars, termVars, pyVars, flowVars, cfgVars>>

FileOperations == FileOperationsOn(FilePaths, FileContents)

FileSaver ==
    \E content \in FileContents, file_path \in FilePaths, mode \in {"w", "a"} :
        /\ LET r == file_saver(fs, content, file_path, mode)
           IN  /\ \A p \in DOMAIN r.fs : Len(r.fs[p].content) <= MaxFileLen
               /\ fs' = r.fs /\ fileResult' = r.out
        /\ lastOp' = "file_saver"
        /\ UNCHANGED <<memVars, regVars, agentVars, termVars, pyVars, flowVars, cfgVars>>

NextFiles == FileOperations \/ FileSaver

SpecFiles == InitFiles /\ [][NextFiles]_vars

-----------------------------------------------------------------------------
(* SpecSandbox: FileOperationsTool is called with paths inside its sandbox *)
(* and with texts that hold line endings                                   *)

InitSandbox == MemInit /\ RegInit /\ AgentInit /\ FileInit /\ TermInit /\ PyInit /\ FlowInit /\ CfgInit /\ lastOp = "init"

SandboxFileOperations == FileOperationsOn(SandboxPaths, TextContents)

NextSandbox == SandboxFileOperations

SpecSandbox == InitSandbox /\ [][NextSandbox]_vars

-----------------------------------------------------------------------------
(* SpecTerminal: execute calls are made, concurrently, on TerminalTool      *)
(* instances of one process.  Each action is the code that one call runs    *)
(* between two awaits.                                                      *)

InitTerminal == MemInit /\ RegInit /\ AgentInit /\ FileInit /\ TermInit /\ PyInit /\ FlowInit /\ CfgInit /\ lastOp = "init"

\* What the code of a call did up to its next await or to its return: x,
\* the call; current_path and os_cwd, what the cd segments left; log, the
\* entries made; released, whether the async with block was left
Ran_to(x, current_path, process_cwd, log, released) ==
    [call |-> x, current_path |-> current_path, os_cwd |-> process_cwd, log |-> log,
     released |-> released]

\* The call leaves the async with block with a result
leave(c, x, result, current_path, process_cwd, log) ==
    Ran_to([x EXCEPT !.pc = "done", !.process = None, !.result = Some(result)],
           current_path, process_cwd,
           Append(log, Event(c, x.i, "released", <<>>, <<>>)), TRUE)

\* A segment raised e: the handler of execute returns the failure
raise(c, x, e, current_path, process_cwd, log) ==
    leave(c, x, terminal_failure(e), current_path, process_cwd,
          Append(log, Event(c, x.i, "raised", <<>>, e)))

\* "for cmd in commands", from segment x.i on, up to the await of a
\* subprocess or to the return.  spawns: whether create_subprocess_shell
\* starts the subprocess, or raises
RECURSIVE for_cmd_in_commands(_, _, _, _, _, _, _)
for_cmd_in_commands(c, x, f, current_path, process_cwd, log, spawns) ==
    LET segs == TerminalSegments[x.command]
    IN  IF x.i > Len(segs)
        THEN leave(c, x, terminal_result(x.final_output, x.final_error, current_path),
                   current_path, process_cwd, log)
        ELSE IF IsCd(segs[x.i])
        THEN LET r == cd(current_path, f, segs[x.i])
             IN  for_cmd_in_commands(
                     c,
                     [x EXCEPT !.i = @ + 1,
                               !.final_output = append_output(@, r.output),
                               !.final_error = append_output(@, r.error)],
                     f,
                     IF r.changed THEN r.path ELSE current_path,
                     IF r.changed THEN r.path ELSE process_cwd,
                     Append(log, Event(c, x.i, IF r.changed THEN "cd" ELSE "cd_failed",
                                       r.path, r.output)),
                     spawns)
        ELSE IF ~spawns
        THEN raise(c, x, SpawnError, current_path, process_cwd, log)
        ELSE Ran_to([x EXCEPT !.pc = "communicate",
                              !.process = Some([cmd |-> segs[x.i],
                                                cwd |-> subprocess_cwd(current_path, process_cwd)])],
                    current_path, process_cwd,
                    Append(log, Event(c, x.i, "spawn",
                                      subprocess_cwd(current_path, process_cwd), segs[x.i])),
                    FALSE)

\* (a communicate step that raises on a non-zero exit status, as
\* subprocess.run(check=True) does)
communicated_checking_status(c, x, f, current_path, process_cwd, p, spawns) ==
    LET out == IF p.stdout # <<>> THEN p.stdout \o <<"\n">> ELSE <<>>
        err == IF p.stderr # <<>> THEN p.stderr \o <<"\n">> ELSE <<>>
    IN  IF ~p.utf8 THEN raise(c, x, DecodeError, current_path, process_cwd, <<>>)
        ELSE IF p.returncode # 0
        THEN raise(c, x, <<"C", "o", "m", "m", "a", "n", "d", " ", "r", "e", "t", "u", "r", "n", "e", "d", " ", "n", "o", "n", "-", "z", "e", "r", "o", " ", "e", "x", "i", "t", " ", "s", "t", "a", "t", "u", "s">>, current_path, process_cwd, <<>>)
        ELSE for_cmd_in_commands(
                 c,
                 [x EXCEPT !.i = @ + 1, !.process = None,
                           !.final_output = append_output(@, out),
                           !.final_error = append_output(@, err)],
                 f, current_path, process_cwd,
                 << Event(c, x.i, "finished", <<>>, out) >>, spawns)

\* process.communicate() returned p: the output is decoded and added to the
\* call's, and the loop goes on
communicated(c, x, f, current_path, process_cwd, p, spawns) ==
    LET out == IF p.stdout # <<>> THEN p.stdout \o <<"\n">> ELSE <<>>
        err == IF p.stderr # <<>> THEN p.stderr \o <<"\n">> ELSE <<>>
    IN  IF ~p.utf8 THEN raise(c, x, DecodeError, current_path, process_cwd, <<>>)
        ELSE for_cmd_in_commands(
                 c,
                 [x EXCEPT !.i = @ + 1, !.process = None,
                           !.final_output = append_output(@, out),
                           !.final_error = append_output(@, err)],
                 f, current_path, process_cwd,
                 << Event(c, x.i, "finished", <<>>, out) >>, spawns)

OtherVarsUnchanged ==
    /\ lastOp' = "terminal"
    /\ UNCHANGED <<memVars, regVars, agentVars, fileVars, pyVars, flowVars, cfgVars>>

\* Call c on instance t, holding the lock given, ran to r
RanTo(c, t, lock, r) ==
    /\ executes' = [executes EXCEPT ![c] = r.call]
    /\ terminals' = [terminals EXCEPT
                        ![t].current_path = r.current_path,
                        ![t].lock = IF r.released THEN release(lock) ELSE lock]
    /\ os_cwd' = r.os_cwd
    /\ termLog' = [termLog EXCEPT ![t] = @ \o r.log]

\* TerminalTool() is called once more
Construct ==
    \E t \in Terminals :
        /\ ~terminals[t].constructed
        /\ terminals' = [terminals EXCEPT ![t] = NewTerminal]
        /\ UNCHANGED <<os_cwd, executes, termLog>>
        /\ OtherVarsUnchanged

\* execute(command) is called on an instance; the calls are numbered in the
\* order they are made.  The call waits at "async with self.lock", or takes
\* the lock and runs to its first await
TerminalExecute(c) ==
    /\ executes[c].pc = "idle"
    /\ c > 1 => executes[c - 1].pc # "idle"
    /\ \E t \in Terminals, command \in TerminalCommands :
          /\ terminals[t].constructed
          /\ IF CanAcquire(terminals[t].lock)
             THEN \E spawns \in BOOLEAN :
                      RanTo(c, t, acquire(terminals[t].lock, c),
                            for_cmd_in_commands(
                                c, [NoCall EXCEPT !.tool = t, !.command = command, !.i = 1],
                                fs, terminals[t].current_path, os_cwd,
                                << Event(c, 0, "acquired", <<>>, <<>>) >>, spawns))
             ELSE /\ executes' = [executes EXCEPT ![c] =
                                    [NoCall EXCEPT !.tool = t, !.command = command, !.i = 1,
                                                   !.pc = "waiting"]]
                  /\ terminals' = [terminals EXCEPT ![t].lock = acquire(@, c)]
                  /\ termLog' = [termLog EXCEPT ![t] =
                                    Append(@, Event(c, 0, "waits", <<>>, <<>>))]
                  /\ UNCHANGED os_cwd
    /\ OtherVarsUnchanged

\* A call that waited for the lock was woken: it takes the lock and runs to
\* its first await
TerminalAcquired(c) ==
    LET t == executes[c].tool
    IN  /\ executes[c].pc = "waiting"
        /\ terminals[t].lock.waiters # <<>>
        /\ terminals[t].lock.waiters[1] = [call |-> c, woken |-> TRUE]
        /\ \E spawns \in BOOLEAN :
              RanTo(c, t, acquire_woken(terminals[t].lock),
                    for_cmd_in_commands(c, executes[c], fs, terminals[t].current_path, os_cwd,
                                        << Event(c, 0, "acquired", <<>>, <<>>) >>, spawns))
        /\ OtherVarsUnchanged

\* process.communicate() returns: the subprocess of the segment has ended,
\* and the call runs to its next await
TerminalCommunicate(c) ==
    LET t == executes[c].tool
    IN  /\ executes[c].pc = "communicate"
        /\ \E spawns \in BOOLEAN :
              RanTo(c, t, terminals[t].lock,
                    communicated(c, executes[c], fs, terminals[t].current_path, os_cwd,
                                 Subprocess(executes[c].process[1].cmd,
                                            executes[c].process[1].cwd),
                                 spawns))
        /\ OtherVarsUnchanged

NextTerminal ==
    \/ Construct
    \/ \E c \in CallIds : TerminalExecute(c)
    \/ \E c \in CallIds : TerminalAcquired(c)
    \/ \E c \in CallIds : TerminalCommunicate(c)

SpecTerminal == InitTerminal /\ [][NextTerminal]_vars

-----------------------------------------------------------------------------
(* SpecPython: PythonExecuteTool.execute is called from a coroutine of an   *)
(* event loop on which another coroutine is scheduled.  execute holds no    *)
(* await: the loop runs it from its call to its end.                        *)

InitPython == MemInit /\ RegInit /\ AgentInit /\ FileInit /\ TermInit /\ PyInit /\ FlowInit /\ CfgInit /\ lastOp = "init"

PyOtherVarsUnchanged ==
    /\ lastOp' = "python_execute"
    /\ UNCHANGED <<memVars, regVars, agentVars, fileVars, termVars, flowVars, cfgVars>>

\* The event loop can run a coroutine: it is not inside one
LoopFree == loop.running = ""

\* execute ends: the loop leaves the coroutine
Ends(pc, result, error) ==
    /\ pyexec' = [pyexec EXCEPT !.pc = pc, !.result = result, !.error = error]
    /\ loop' = [loop EXCEPT !.running = ""]

\* execute(code, timeout) is called, up to process.join(timeout).
\* multiprocessing.Manager() raises, process.start() raises, or the worker
\* is started
PyExecute ==
    /\ pyexec.pc = "idle" /\ LoopFree
    /\ \E code \in PythonCodes, timeout \in Timeouts,
          started \in {"manager_raises", "start_raises", "started"} :
          /\ pyexec' = [NoPyCall EXCEPT
                           !.code = code, !.timeout = timeout,
                           !.pc = CASE started = "manager_raises" -> "raised"
                                    [] started = "start_raises" -> "returned"
                                    [] OTHER -> "join",
                           !.result = IF started = "start_raises"
                                      THEN Some(start_failed(ForkError)) ELSE None,
                           !.error = IF started = "manager_raises" THEN ForkError ELSE <<>>]
          /\ worker' = IF started = "started"
                       THEN [state |-> "running", result_dict |-> NewResultDict]
                       ELSE worker
          /\ loop' = [loop EXCEPT !.running = IF started = "started" THEN "execute" ELSE ""]
    /\ PyOtherVarsUnchanged

\* The worker runs _run_code to its end and exits
WorkerEnds ==
    /\ worker.state = "running"
    /\ exec(pyexec.code, safe_globals).ends # "never"
    /\ worker' = [state |-> "exited",
                  result_dict |-> run_code(pyexec.code, worker.result_dict, safe_globals)]
    /\ UNCHANGED <<pyexec, loop>>
    /\ PyOtherVarsUnchanged

\* The worker is killed by a signal that execute did not send, before it
\* stored the success
WorkerKilled ==
    /\ worker.state = "running"
    /\ \E stored \in BOOLEAN :
          worker' = [state |-> "killed",
                     result_dict |-> run_code_killed(pyexec.code, worker.result_dict,
                                                     safe_globals, stored)]
    /\ UNCHANGED <<pyexec, loop>>
    /\ PyOtherVarsUnchanged

\* process.join(timeout) returns because the worker has ended: its result is
\* relayed
JoinReturns ==
    /\ pyexec.pc = "join" /\ worker.state \in {"exited", "killed"}
    /\ Ends("returned", Some(relayed(worker.result_dict)), <<>>)
    /\ UNCHANGED worker
    /\ PyOtherVarsUnchanged

\* process.join(timeout) returns because the timeout has expired, with the
\* worker alive: process.terminate() sends it SIGTERM and process.join()
\* waits for its end
TimeoutExpires ==
    /\ pyexec.pc = "join" /\ worker.state = "running"
    /\ IF exec(pyexec.code, safe_globals).ignores_sigterm
       THEN /\ pyexec' = [pyexec EXCEPT !.pc = "blocked"]
            /\ UNCHANGED <<worker, loop>>
       ELSE /\ worker' = [worker EXCEPT !.state = "terminated"]
            /\ Ends("returned", Some(timed_out(pyexec.timeout)), <<>>)
    /\ PyOtherVarsUnchanged

\* Another coroutine of the event loop makes a step
OtherProgress ==
    /\ LoopFree
    /\ loop.ticks < MaxTicks
    /\ loop' = [loop EXCEPT !.ticks = @ + 1]
    /\ UNCHANGED <<pyexec, worker>>
    /\ PyOtherVarsUnchanged

NextPython == PyExecute \/ WorkerEnds \/ WorkerKilled \/ JoinReturns \/ TimeoutExpires \/ OtherProgress

SpecPython == InitPython /\ [][NextPython]_vars

-----------------------------------------------------------------------------
(* SpecFlow: a SequentialFlow is constructed and executed once *)

InitFlow ==
    MemInit /\ RegInit /\ AgentInit /\ FileInit /\ TermInit /\ PyInit /\ FlowInit /\ CfgInit
    /\ lastOp = "init"

FlowOtherVarsUnchanged ==
    /\ lastOp' = "flow"
    /\ UNCHANGED <<memVars, regVars, agentVars, fileVars, termVars, pyVars, cfgVars>>

\* SequentialFlow(agents) or SequentialFlow(agents, agent_sequence=...)
FlowConstruct ==
    /\ ~flow.constructed
    /\ \E agents \in AgentLists, agent_sequence \in SeqsUpTo(FlowKeys, MaxSequence) :
          flow' = NewFlow(agents, agent_sequence)
    /\ UNCHANGED flowLog
    /\ FlowOtherVarsUnchanged

\* execute(input_text) is called: it fails for want of agents, or runs to
\* the await of the first agent's run, or to its return
FlowExecute ==
    /\ flow.constructed /\ flow.pc = "idle"
    /\ \E input_text \in FlowInputs :
          flow' = IF flow.agents = <<>>
                  THEN flow_failed([flow EXCEPT !.input_text = input_text],
                                   <<"N", "o", " ", "a", "g", "e", "n", "t", "s", " ", "a", "v", "a", "i", "l", "a", "b", "l", "e">>)
                  ELSE for_agent_key([flow EXCEPT !.input_text = input_text,
                                                  !.current_input = input_text,
                                                  !.results = <<>>], 1)
    /\ UNCHANGED flowLog
    /\ FlowOtherVarsUnchanged

\* The run of agent_sequence[k] returns a text: execute runs to the await of
\* the next agent's run, or to its return
AgentReturns ==
    /\ flow.pc = "run"
    /\ \E result \in AgentTexts :
          /\ flowLog' = Append(flowLog, FlowRun(flow.agent_sequence[flow.k],
                                                flow.current_input, "returned", result))
          /\ flow' = for_agent_key(
                         [flow EXCEPT !.results = Append(@, result),
                                      !.current_input = use_result(@, result)],
                         flow.k + 1)
    /\ FlowOtherVarsUnchanged

\* The run of agent_sequence[k] raises
AgentRaises ==
    /\ flow.pc = "run"
    /\ flowLog' = Append(flowLog, FlowRun(flow.agent_sequence[flow.k],
                                          flow.current_input, "raised", RunError))
    /\ flow' = flow_failed(flow, RunError)
    /\ FlowOtherVarsUnchanged

NextFlow == FlowConstruct \/ FlowExecute \/ AgentReturns \/ AgentRaises

SpecFlow == InitFlow /\ [][NextFlow]_vars

-----------------------------------------------------------------------------
(* SpecConfig: threads of one process call Config()                         *)

InitConfig ==
    MemInit /\ RegInit /\ AgentInit /\ FileInit /\ TermInit /\ PyInit /\ FlowInit /\ CfgInit
    /\ lastOp = "init"

CfgOtherVarsUnchanged ==
    /\ lastOp' = "config"
    /\ UNCHANGED <<memVars, regVars, agentVars, fileVars, termVars, pyVars, flowVars>>

\* Thread t is at pc and goes on to the pc given
At(t, pc) == threads[t].pc = pc
Goto(t, pc) == threads' = [threads EXCEPT ![t].pc = pc]

\* Thread t calls Config()
ConfigCall(t) ==
    /\ At(t, "idle") /\ threads[t].calls < MaxConfigCalls
    /\ threads' = [threads EXCEPT ![t] = [pc |-> "new", calls |-> @.calls + 1,
                                          self |-> None, returned |-> None]]
    /\ UNCHANGED config
    /\ CfgOtherVarsUnchanged

\* __new__, line 34: if cls._instance is None; line 38: return cls._instance
NewCheck(t) ==
    /\ At(t, "new")
    /\ IF config._instance = None THEN Goto(t, "lock")
       ELSE threads' = [threads EXCEPT ![t].pc = "init", ![t].self = config._instance]
    /\ UNCHANGED config
    /\ CfgOtherVarsUnchanged

\* line 35: with cls._lock
NewWithLock(t) ==
    /\ At(t, "lock") /\ config._lock = 0
    /\ config' = [config EXCEPT !._lock = t]
    /\ Goto(t, "locked")
    /\ CfgOtherVarsUnchanged

\* lines 36-38: inside the lock, the instance is made if there is none; the
\* lock is released and cls._instance returned
NewLocked(t) ==
    /\ At(t, "locked")
    /\ LET made == IF config._instance = None
                   THEN [config EXCEPT !._instance = Some(config.instances + 1),
                                       !.instances = @ + 1]
                   ELSE config
       IN  /\ config' = [made EXCEPT !._lock = 0]
           /\ threads' = [threads EXCEPT ![t].pc = "init", ![t].self = made._instance]
    /\ CfgOtherVarsUnchanged

\* __init__, lines 42-43: if self._initialized: return
InitCheck(t) ==
    /\ At(t, "init")
    /\ IF config._initialized
       THEN threads' = [threads EXCEPT ![t].pc = "done", ![t].returned = threads[t].self]
       ELSE Goto(t, "load")
    /\ UNCHANGED config
    /\ CfgOtherVarsUnchanged

\* line 45: self._config = self._load_initial_config()
InitLoad(t) ==
    /\ At(t, "load")
    /\ config' = [config EXCEPT !.loads = @ + 1]
    /\ Goto(t, "set")
    /\ CfgOtherVarsUnchanged

\* line 46: self._initialized = True, and Config() returns the instance
InitSet(t) ==
    /\ At(t, "set")
    /\ config' = [config EXCEPT !._initialized = TRUE]
    /\ threads' = [threads EXCEPT ![t].pc = "done", ![t].returned = threads[t].self]
    /\ CfgOtherVarsUnchanged

\* The thread goes on after its call
ConfigReturn(t) ==
    /\ At(t, "done") /\ threads[t].calls < MaxConfigCalls
    /\ Goto(t, "idle")
    /\ UNCHANGED config
    /\ CfgOtherVarsUnchanged

NextConfig ==
    \E t \in Threads :
        \/ ConfigCall(t) \/ NewCheck(t) \/ NewWithLock(t) \/ NewLocked(t)
        \/ InitCheck(t) \/ InitLoad(t) \/ InitSet(t) \/ ConfigReturn(t)

SpecConfig == InitConfig /\ [][NextConfig]_vars

-----------------------------------------------------------------------------
(* The claims *)

RanAgent == lastOp = "run"

\* C1: for every input and every set of registered tools, run returns a text
\* and no exception leaves it.
C1_RunNeverRaises == RanAgent => lastRun.kind = "returned"

\* The root of the sandbox and what lies below it, compared by components
Outside(p) == ~WithinBaseByComponents(p)

CalledFileTool == lastOp \in {"file_operations", "file_saver"}

\* C2: a call of a file tool whose resolved path is neither the sandbox root
\* nor below it fails with access denied, and whatever lies outside the
\* sandbox root stays as it was.
C2_OutsidePathsDenied ==
    /\ CalledFileTool /\ Outside(fileResult.full_path)
        => fileResult.error = "access_denied" /\ fileResult.io = {}
    /\ \A p \in DOMAIN fs \cup DOMAIN InitialFs :
        Outside(p) => p \in DOMAIN fs /\ p \in DOMAIN InitialFs /\ fs[p] = InitialFs[p]

\* The rules an input matches, by number
MatchedRules(t) ==
    {k \in 1..7 : CASE k = 1 -> Triggers[t].system
                    [] k = 2 -> Triggers[t].search
                    [] k = 3 -> Triggers[t].navigate
                    [] k = 4 -> Triggers[t].open_url
                    [] k = 5 -> Triggers[t].terminal
                    [] k = 6 -> Triggers[t].create_file
                    [] k = 7 -> Triggers[t].list_files}

EarliestRule(t) == CHOOSE k \in MatchedRules(t) : \A j \in MatchedRules(t) : k <= j

\* The rule whose handler makes a given tool call
RuleOfCall(c) ==
    CASE c.tool = <<"s", "y", "s", "t", "e", "m", "_", "i", "n", "f", "o">> -> 1
      [] c.tool = <<"b", "r", "o", "w", "s", "e", "r">> /\ c.kwargs.action = <<"s", "e", "a", "r", "c", "h">> -> 2
      [] c.tool = <<"b", "r", "o", "w", "s", "e", "r">> /\ c.kwargs.action = <<"n", "a", "v", "i", "g", "a", "t", "e">> -> 3
      [] c.tool = <<"b", "r", "o", "w", "s", "e", "r", "_", "u", "s", "e">> -> 4
      [] c.tool = <<"t", "e", "r", "m", "i", "n", "a", "l">> -> 5
      [] c.tool = <<"f", "i", "l", "e", "_", "o", "p", "e", "r", "a", "t", "i", "o", "n", "s">> /\ c.kwargs.action = <<"c", "r", "e", "a", "t", "e">> -> 6
      [] c.tool = <<"f", "i", "l", "e", "_", "o", "p", "e", "r", "a", "t", "i", "o", "n", "s">> /\ c.kwargs.action = <<"l", "i", "s", "t">> -> 7

\* The response the handler of the system-status rule and of the terminal rule give
ResponseOfRule(k, r) ==
    CASE k = 1 -> <<"H", "e", "r", "e", "'", "s", " ", "t", "h", "e", " ", "c", "u", "r", "r", "e", "n", "t", " ", "s", "y", "s", "t", "e", "m", " ", "s", "t", "a", "t", "u", "s", ":">> \o <<"\n", "\n">> \o r.output
      [] k = 5 -> IF r.output = <<>> THEN <<"(", "C", "o", "m", "m", "a", "n", "d", " ", "e", "x", "e", "c", "u", "t", "e", "d", " ", "s", "u", "c", "c", "e", "s", "s", "f", "u", "l", "l", "y", " ", "w", "i", "t", "h", " ", "n", "o", " ", "o", "u", "t", "p", "u", "t", ")">>
                  ELSE r.output

DispatchToolNames ==
    { <<"s", "y", "s", "t", "e", "m", "_", "i", "n", "f", "o">>, <<"b", "r", "o", "w", "s", "e", "r">>, <<"b", "r", "o", "w", "s", "e", "r", "_", "u", "s", "e">>, <<"t", "e", "r", "m", "i", "n", "a", "l">>, <<"f", "i", "l", "e", "_", "o", "p", "e", "r", "a", "t", "i", "o", "n", "s">> }

AllToolsRegistered == \A n \in DispatchToolNames : \E i \in DOMAIN tools : tools[i].key = n

AllCallsSucceeded ==
    \A i \in DOMAIN lastRun.calls :
        lastRun.calls[i].outcome.kind = "return" /\ lastRun.calls[i].outcome.result.success

AnsweredMultiMatch ==
    /\ RanAgent /\ lastRun.kind = "returned"
    /\ Cardinality(MatchedRules(lastRun.input)) > 1
    /\ AllToolsRegistered /\ AllCallsSucceeded

\* C3: for an input that matches more than one rule, with all tools
\* registered and succeeding, exactly one tool call is made, by the handler of
\* the earliest matching rule, the LLM is not called, and the response is that
\* handler's.
C3_EarliestRuleWins ==
    AnsweredMultiMatch =>
        /\ Len(lastRun.calls) = 1
        /\ RuleOfCall(lastRun.calls[1]) = EarliestRule(lastRun.input)
        /\ lastRun.llm = <<>>
        /\ EarliestRule(lastRun.input) \in {1, 5}
        /\ lastRun.text = ResponseOfRule(EarliestRule(lastRun.input),
                                         lastRun.calls[1].outcome.result)

\* "ls" matches the terminal rule and the list-files rule: the terminal answers
C3_Witness ==
    /\ AnsweredMultiMatch
    /\ lastRun.input = <<"l", "s">>
    /\ MatchedRules(lastRun.input) = {5, 7}
    /\ lastRun.calls[1].tool = <<"t", "e", "r", "m", "i", "n", "a", "l">>

\* The label a stored state value reads as
IsIdle(s) == s \in {"idle", "IDLE"}
IsError(s) == s \in {"error", "ERROR"}

\* C4: whenever run has returned, the agent's state is idle or error.
C4_IdleOrErrorAfterRun ==
    RanAgent /\ lastRun.kind = "returned" => IsIdle(state) \/ IsError(state)

\* C5: if an exception is raised inside next_step's try block, run returns
\* "Error: {message}" and the agent's state is error when run returns.
C5_ErrorStateKept ==
    RanAgent /\ lastRun.kind = "returned" /\ lastRun.caught
        => StartsWith(lastRun.text, <<"E", "r", "r", "o", "r", ":", " ">>) /\ IsError(state)

\* C6: the number of stored messages never exceeds max_messages.
C6_LengthWithinMax == Len(messages) <= max_messages

\* C7: after more than max_messages messages were appended to an empty
\* memory, the memory holds exactly the last max_messages of them, in order.
C7_KeepsMostRecent ==
    Len(appended) > max_messages
        => messages = SubSeq(appended, Len(appended) - max_messages + 1, Len(appended))

\* The tool most recently passed to register under a name, if any
LastRegistered(name) ==
    LET at == {i \in DOMAIN registered : registered[i].name = name}
    IN  IF at = {} THEN None
        ELSE Some(registered[CHOOSE i \in at : \A j \in at : j <= i])

\* C8: get(name) returns the tool most recently registered under the name,
\* None for a name never registered, and registering a tool twice leaves the
\* registry as registering it once does.
C8_GetReturnsLastRegistered ==
    /\ \A name \in RegistryNames : get(tools, name) = LastRegistered(name)
    /\ \A tool \in RegistryPool :
        register(register(tools, tool), tool) = register(tools, tool)

\* Two tools were registered under "terminal": get returns the second
C8_Witness ==
    /\ Len(registered) >= 2
    /\ registered[1] = TerminalTool
    /\ registered[2] = CustomTool(<<"t", "e", "r", "m", "i", "n", "a", "l">>)
    /\ get(tools, <<"t", "e", "r", "m", "i", "n", "a", "l">>) = Some(CustomTool(<<"t", "e", "r", "m", "i", "n", "a", "l">>))
    /\ get(tools, <<"w", "e", "b", "_", "s", "e", "a", "r", "c", "h">>) = None

NotFoundPrefix(name) == <<"T", "o", "o", "l", " ", "'">> \o name \o <<"'", " ", "n", "o", "t", " ", "f", "o", "u", "n", "d", ".", " ", "A", "v", "a", "i", "l", "a", "b", "l", "e", " ", "t", "o", "o", "l", "s", ":", " ">>

\* The names a not-found text lists after its prefix
ListedNames(name, output) ==
    LET rest == SubSeq(output, Len(NotFoundPrefix(name)) + 1, Len(output))
    IN  IF rest = <<>> THEN <<>> ELSE Split(rest, <<",", " ">>, Len(rest))

\* C9: execute of a name that is not registered returns a failure result
\* whose text lists exactly the registered names, raises nothing, calls no
\* tool and leaves the registry unchanged.
C9_ExecuteMissing ==
    [][ lastOp' = "execute" /\ (\A i \in DOMAIN tools : tools[i].key # execResult'.name)
        => /\ tools' = tools
           /\ ~execResult'.raised
           /\ execResult'.invoked = <<>>
           /\ ~execResult'.result.success
           /\ StartsWith(execResult'.result.output, NotFoundPrefix(execResult'.name))
           /\ ListedNames(execResult'.name, execResult'.result.output)
                = [i \in DOMAIN tools |-> tools[i].key] ]_vars

C9_Witness ==
    /\ lastOp = "execute"
    /\ execResult.name = <<"w", "e", "b", "_", "s", "e", "a", "r", "c", "h">>
    /\ Len(tools) = 2
    /\ ~execResult.result.success
    /\ ListedNames(execResult.name, execResult.result.output) = << <<"t", "e", "r", "m", "i", "n", "a", "l">>, <<"s", "y", "s", "t", "e", "m", "_", "i", "n", "f", "o">> >>

ExecutedRegistered ==
    lastOp = "execute" /\ \E i \in DOMAIN tools : tools[i].key = execResult.name

\* What the executed tool did with the keyword arguments it was given
ToolDid ==
    LET tool == tools[CHOOSE i \in DOMAIN tools : tools[i].key = execResult.name].tool
    IN  tool_execute(tool, execResult.kwargs, execResult.outcome)

\* C10: execute of a registered tool lets no error raised by the tool out:
\* the error becomes a failure result carrying its message, and the result of
\* a tool that returns is passed through unchanged.
C10_ExecuteAbsorbsErrors ==
    ExecutedRegistered =>
        /\ ~execResult.raised
        /\ ToolDid.kind = "raise" =>
            /\ ~execResult.result.success
            /\ Contains(execResult.result.output, ToolDid.msg)
        /\ ToolDid.kind = "return" => execResult.result = ToolDid.result

\* A tool raised an exception that is no ToolError, another was called with
\* arguments it does not accept
C10_Witness ==
    /\ ExecutedRegistered
    /\ ToolDid.kind = "raise" /\ ToolDid.exc \in {"Exception", "TypeError"}
    /\ ~execResult.raised /\ ~execResult.result.success

-----------------------------------------------------------------------------
(* The rules of next_step, one at a time *)

\* The run's input matches rule k (1 to 7)
InputMatches(k) == RanAgent /\ k \in MatchedRules(lastRun.input)

\* The i-th tool call of the run was made to the tool registered as name
CalledTool(i, name) == i \in DOMAIN lastRun.calls /\ lastRun.calls[i].tool = name

\* The i-th tool call of the run returned a result with success = True
CallSucceeded(i) ==
    /\ i \in DOMAIN lastRun.calls
    /\ lastRun.calls[i].outcome.kind = "return"
    /\ lastRun.calls[i].outcome.result.success

\* The i-th tool call of the run returned a result with success = False
CallFailed(i) ==
    /\ i \in DOMAIN lastRun.calls
    /\ lastRun.calls[i].outcome.kind = "return"
    /\ ~lastRun.calls[i].outcome.result.success

UserMessage == Message("user", lastRun.input)
AssistantMessage == Message("assistant", lastRun.text)

\* A system-status query was run and the registered system_info tool's
\* execute succeeded
SystemInfoSucceeded ==
    /\ InputMatches(1)
    /\ get(tools, <<"s", "y", "s", "t", "e", "m", "_", "i", "n", "f", "o">>) # None
    /\ CalledTool(1, <<"s", "y", "s", "t", "e", "m", "_", "i", "n", "f", "o">>) /\ CallSucceeded(1)

\* C11: for an input containing a system-status keyword in any case, with
\* system_info registered and its execute succeeding, the response is
\* "Here's the current system status:" followed by the tool's output, the
\* user message and that response are what the run appends to memory, and
\* the LLM is not called.
C11_SystemStatusAnswered ==
    [][ SystemInfoSucceeded' =>
          /\ lastRun'.kind = "returned"
          /\ lastRun'.text = <<"H", "e", "r", "e", "'", "s", " ", "t", "h", "e", " ", "c", "u", "r", "r", "e", "n", "t", " ", "s", "y", "s", "t", "e", "m", " ", "s", "t", "a", "t", "u", "s", ":">> \o <<"\n", "\n">>
                             \o lastRun'.calls[1].outcome.result.output
          /\ Len(lastRun'.calls) = 1
          /\ messages' = messages \o << UserMessage', AssistantMessage' >>
          /\ lastRun'.llm = <<>> ]_vars

\* "System Info", in capitals, answered by the system_info tool
C11_Witness ==
    /\ SystemInfoSucceeded
    /\ lastRun.input = <<"S", "y", "s", "t", "e", "m", " ", "I", "n", "f", "o">>
    /\ lastRun.text = <<"H", "e", "r", "e", "'", "s", " ", "t", "h", "e", " ", "c", "u", "r", "r", "e", "n", "t", " ", "s", "y", "s", "t", "e", "m", " ", "s", "t", "a", "t", "u", "s", ":">> \o <<"\n", "\n">> \o <<"S", "y", "s", "t", "e", "m", " ", "I", "n", "f", "o", "r", "m", "a", "t", "i", "o", "n", ":">>
    /\ messages = << UserMessage, AssistantMessage >>

\* The name under which the handler of rule k looks its tool up
ToolOfRule(k) ==
    CASE k = 1 -> <<"s", "y", "s", "t", "e", "m", "_", "i", "n", "f", "o">>
      [] k \in {2, 3} -> <<"b", "r", "o", "w", "s", "e", "r">>
      [] k = 4 -> <<"b", "r", "o", "w", "s", "e", "r", "_", "u", "s", "e">>
      [] k = 5 -> <<"t", "e", "r", "m", "i", "n", "a", "l">>
      [] k \in {6, 7} -> <<"f", "i", "l", "e", "_", "o", "p", "e", "r", "a", "t", "i", "o", "n", "s">>

\* The run got past tools.to_params() into the try block of next_step, where
\* the rules are
ReachedRules == RanAgent /\ ~to_params_raises(tools)

\* A system-status query was run with no system_info tool registered
SystemInfoMissing ==
    ReachedRules /\ InputMatches(1) /\ get(tools, <<"s", "y", "s", "t", "e", "m", "_", "i", "n", "f", "o">>) = None

\* A system-status query was run and system_info's execute returned
\* success = False
SystemInfoFailed ==
    InputMatches(1) /\ CalledTool(1, <<"s", "y", "s", "t", "e", "m", "_", "i", "n", "f", "o">>) /\ CallFailed(1)

\* The tool calls rule 1 made, and the rules the input matches after rule 1
CallsOfRule1 == IF SystemInfoFailed THEN 1 ELSE 0
LaterRules == MatchedRules(lastRun.input) \ {1}
EarliestLaterRule == CHOOSE k \in LaterRules : \A j \in LaterRules : k <= j

\* The LLM was asked once and its completion is the response
LLMAnswered ==
    /\ Len(lastRun.llm) = 1
    /\ lastRun.llm[1].completion.kind = "return" =>
          lastRun.kind = "returned" /\ ~lastRun.caught
          /\ lastRun.text = lastRun.llm[1].completion.text
    /\ lastRun.llm[1].completion.kind = "raise" =>
          lastRun.caught /\ lastRun.text = <<"E", "r", "r", "o", "r", ":", " ">> \o lastRun.llm[1].completion.text

\* C12: when the input holds a system-status keyword and system_info is not
\* registered or its execute returns success = False, rule 1 gives no
\* response and appends no assistant message: the earliest of rules 2 to 7
\* the input matches handles it (no other rule calls a tool, the LLM is not
\* asked), and when it matches none of them the LLM is asked and its
\* completion is the response.
C12_SystemStatusFallsThrough ==
    [][ (SystemInfoMissing \/ SystemInfoFailed)' =>
          /\ messages' \in { messages \o << UserMessage' >>,
                             messages \o << UserMessage', AssistantMessage' >> }
          /\ LaterRules' = {} =>
                Len(lastRun'.calls) = CallsOfRule1' /\ LLMAnswered'
          /\ LaterRules' # {} =>
                /\ lastRun'.llm = <<>>
                /\ Len(lastRun'.calls) <= CallsOfRule1' + 1
                /\ \A i \in DOMAIN lastRun'.calls :
                      i > CallsOfRule1' =>
                        /\ RuleOfCall(lastRun'.calls[i]) = EarliestLaterRule'
                        /\ get(tools', ToolOfRule(EarliestLaterRule')) # None
                /\ get(tools', ToolOfRule(EarliestLaterRule')) = None =>
                      /\ Len(lastRun'.calls) = CallsOfRule1'
                      /\ Contains(lastRun'.text, <<" ", "t", "o", "o", "l", " ", "i", "s", " ", "n", "o", "t", " ", "a", "v", "a", "i", "l", "a", "b", "l", "e", ".">>) ]_vars

\* system_info's execute returned a failure and the LLM answered "system status"
C12_Witness ==
    /\ SystemInfoFailed
    /\ lastRun.input = <<"s", "y", "s", "t", "e", "m", " ", "s", "t", "a", "t", "u", "s">>
    /\ LaterRules = {}
    /\ Len(lastRun.llm) = 1 /\ lastRun.text = <<"T", "e", "s", "t", " ", "s", "u", "c", "c", "e", "s", "s", "f", "u", "l">>
    /\ messages = << UserMessage, AssistantMessage >>

\* The sentence the handler of rule k (2 to 7) returns when its tool is missing
MissingToolSentence(k) ==
    CASE k \in {2, 3} -> <<"B", "r", "o", "w", "s", "e", "r", " ", "t", "o", "o", "l", " ", "i", "s", " ", "n", "o", "t", " ", "a", "v", "a", "i", "l", "a", "b", "l", "e", ".", " ", "P", "l", "e", "a", "s", "e", " ", "m", "a", "k", "e", " ", "s", "u", "r", "e", " ", "i", "t", "'", "s", " ", "p", "r", "o", "p", "e", "r", "l", "y", " ", "r", "e", "g", "i", "s", "t", "e", "r", "e", "d", ".">>
      [] k = 4 -> <<"B", "r", "o", "w", "s", "e", "r", "_", "u", "s", "e", " ", "t", "o", "o", "l", " ", "i", "s", " ", "n", "o", "t", " ", "a", "v", "a", "i", "l", "a", "b", "l", "e", ".", " ", "P", "l", "e", "a", "s", "e", " ", "m", "a", "k", "e", " ", "s", "u", "r", "e", " ", "i", "t", "'", "s", " ", "p", "r", "o", "p", "e", "r", "l", "y", " ", "r", "e", "g", "i", "s", "t", "e", "r", "e", "d", ".">>
      [] k = 5 -> <<"T", "e", "r", "m", "i", "n", "a", "l", " ", "t", "o", "o", "l", " ", "i", "s", " ", "n", "o", "t", " ", "a", "v", "a", "i", "l", "a", "b", "l", "e", ".", " ", "P", "l", "e", "a", "s", "e", " ", "m", "a", "k", "e", " ", "s", "u", "r", "e", " ", "i", "t", "'", "s", " ", "p", "r", "o", "p", "e", "r", "l", "y", " ", "r", "e", "g", "i", "s", "t", "e", "r", "e", "d", ".">>
      [] k \in {6, 7} -> <<"F", "i", "l", "e", " ", "o", "p", "e", "r", "a", "t", "i", "o", "n", "s", " ", "t", "o", "o", "l", " ", "i", "s", " ", "n", "o", "t", " ", "a", "v", "a", "i", "l", "a", "b", "l", "e", ".", " ", "P", "l", "e", "a", "s", "e", " ", "m", "a", "k", "e", " ", "s", "u", "r", "e", " ", "i", "t", "'", "s", " ", "p", "r", "o", "p", "e", "r", "l", "y", " ", "r", "e", "g", "i", "s", "t", "e", "r", "e", "d", ".">>

\* The input matches rule k and the tool of rule k is not registered
MatchedWithoutTool(k) ==
    ReachedRules /\ InputMatches(k) /\ get(tools, ToolOfRule(k)) = None

\* Rule k is the rule that handles the input: rule 1 does not match it or
\* gave no response, and no rule from 2 to k - 1 matches it
HandledByRule(k) ==
    /\ ReachedRules /\ InputMatches(k)
    /\ 1 \in MatchedRules(lastRun.input) => SystemInfoMissing \/ SystemInfoFailed
    /\ k = EarliestLaterRule

\* C13 as stated: whenever the trigger of one of rules 2 to 7 matches and its
\* tool is not registered, the response is the rule's 'not available'
\* sentence, no tool and no LLM is called, and only the user message is
\* appended to memory.
C13_MissingToolAlwaysReported ==
    [][ \A k \in 2..7 :
          MatchedWithoutTool(k)' =>
            /\ lastRun'.kind = "returned" /\ lastRun'.text = MissingToolSentence(k)
            /\ lastRun'.calls = <<>> /\ lastRun'.llm = <<>>
            /\ messages' = messages \o << UserMessage' >> ]_vars

\* C13, for the rule that handles the input: when the trigger of rule k (2 to
\* 7) matches, no earlier rule has answered and the tool of rule k is not
\* registered, the response is the rule's 'not available' sentence naming the
\* tool, no later rule is tried, the rule calls no tool (the only call of the
\* run, if any, is rule 1's failed system_info call), the LLM is not called,
\* and only the user message is appended to memory.
C13_MissingToolReported ==
    [][ \A k \in 2..7 :
          (HandledByRule(k) /\ get(tools, ToolOfRule(k)) = None)' =>
            /\ lastRun'.kind = "returned" /\ ~lastRun'.caught
            /\ lastRun'.text = MissingToolSentence(k)
            /\ Len(lastRun'.calls) = CallsOfRule1'
            /\ lastRun'.llm = <<>>
            /\ messages' = messages \o << UserMessage' >> ]_vars

\* "ls" with file_operations registered and no terminal: the terminal rule
\* answers and the list-files rule is not tried
C13_Witness ==
    /\ HandledByRule(5) /\ get(tools, <<"t", "e", "r", "m", "i", "n", "a", "l">>) = None
    /\ lastRun.input = <<"l", "s">>
    /\ 7 \in MatchedRules(lastRun.input) /\ get(tools, <<"f", "i", "l", "e", "_", "o", "p", "e", "r", "a", "t", "i", "o", "n", "s">>) # None
    /\ lastRun.text = MissingToolSentence(5)
    /\ lastRun.calls = <<>>
    /\ messages = << UserMessage >>

\* The system prompt next_step gives the LLM: the agent's, then the block
\* that describes the registered tools
EnhancedSystemPrompt ==
    SystemPrompt \o <<"\n", "\n">> \o <<"Y", "o", "u", " ", "h", "a", "v", "e", " ", "a", "c", "c", "e", "s", "s", " ", "t", "o", " ", "t", "h", "e", " ", "f", "o", "l", "l", "o", "w", "i", "n", "g", " ", "t", "o", "o", "l", "s", ":">> \o <<"\n">>
    \o get_tools_description(tools) \o <<"\n", "\n">>
    \o <<"T", "o", " ", "u", "s", "e", " ", "a", " ", "t", "o", "o", "l", ",", " ", "r", "e", "s", "p", "o", "n", "d", " ", "w", "i", "t", "h", " ", "t", "h", "e", " ", "t", "o", "o", "l", " ", "n", "a", "m", "e", " ", "a", "n", "d", " ", "p", "a", "r", "a", "m", "e", "t", "e", "r", "s", " ", "i", "n", " ", "a", " ", "s", "t", "r", "u", "c", "t", "u", "r", "e", "d", " ", "f", "o", "r", "m", "a", "t", ".">>

\* A run whose input matches none of rules 1 to 7
NoRuleMatched == ReachedRules /\ MatchedRules(lastRun.input) = {}

\* C14: when no rule matches, the LLM is asked exactly once, with the whole
\* memory, whose last message is the user message just appended, and with the
\* agent's system prompt followed by the tool descriptions; no tool is
\* called; a completion is appended to memory as an assistant message and
\* returned unchanged.
C14_LLMFallback ==
    [][ NoRuleMatched' =>
          /\ Len(lastRun'.llm) = 1
          /\ lastRun'.llm[1].messages = messages \o << UserMessage' >>
          /\ lastRun'.llm[1].system_prompt = EnhancedSystemPrompt'
          /\ lastRun'.calls = <<>>
          /\ lastRun'.llm[1].completion.kind = "return" =>
                /\ lastRun'.kind = "returned" /\ ~lastRun'.caught
                /\ lastRun'.text = lastRun'.llm[1].completion.text
                /\ messages' = messages \o << UserMessage',
                                  Message("assistant", lastRun'.llm[1].completion.text) >> ]_vars

\* "hello", asked of an agent whose memory holds an earlier exchange and whose
\* registry holds system_info: the LLM sees the three messages
C14_Witness ==
    /\ NoRuleMatched
    /\ lastRun.input = <<"h", "e", "l", "l", "o">>
    /\ Len(lastRun.llm) = 1 /\ Len(lastRun.llm[1].messages) = 3
    /\ Contains(lastRun.llm[1].system_prompt, <<"-", " ", "s", "y", "s", "t", "e", "m", "_", "i", "n", "f", "o", ":", " ", "G", "e", "t", " ", "i", "n", "f", "o", "r", "m", "a", "t", "i", "o", "n", " ", "a", "b", "o", "u", "t", " ", "t", "h", "e", " ", "s", "y", "s", "t", "e", "m">>)
    /\ lastRun.text = <<"T", "e", "s", "t", " ", "s", "u", "c", "c", "e", "s", "s", "f", "u", "l">>
    /\ Len(messages) = 4 /\ messages[4] = AssistantMessage

-----------------------------------------------------------------------------
(* FileOperationsTool inside its sandbox *)

CalledFileOperations == lastOp = "file_operations"

\* The last call was a successful write / delete / exists
Wrote == CalledFileOperations /\ fileResult.operation = "write" /\ fileResult.success
Deleted == CalledFileOperations /\ fileResult.operation = "delete" /\ fileResult.success

\* The call made by this step is the given operation on the path of the
\* call before it
ThenCalls(operation) ==
    /\ CalledFileOperations /\ CalledFileOperations'
    /\ fileResult'.operation = operation
    /\ fileResult'.full_path = fileResult.full_path

\* C15: a read that follows a successful write of the same path succeeds and
\* returns exactly the content written (fileResult.data of a write is the
\* content it was given, of a read the content it returns).
C15_WriteThenReadReturnsContent ==
    [][ Wrote /\ ThenCalls("read") =>
          fileResult'.success /\ fileResult'.data = fileResult.data ]_vars

\* The entries of a file system at or below p
Below(f, p) == { q \in DOMAIN f : IsPrefixPath(p, q) }

\* This step calls delete on a path that is a directory when the call is made
DeletesDirectory ==
    /\ CalledFileOperations' /\ fileResult'.operation = "delete"
    /\ IsDir(fs, fileResult'.full_path)

\* C16: delete of a directory with recursive = False fails with an error and
\* leaves the directory and everything below it as it was; with
\* recursive = True it succeeds and neither the directory nor any entry below
\* it exists afterwards.
C16_DeleteDirectory ==
    [][ DeletesDirectory =>
          /\ ~fileResult'.recursive =>
                /\ ~fileResult'.success /\ fileResult'.raised
                /\ Below(fs', fileResult'.full_path) = Below(fs, fileResult'.full_path)
                /\ \A q \in Below(fs, fileResult'.full_path) : fs'[q] = fs[q]
          /\ fileResult'.recursive =>
                /\ fileResult'.success
                /\ Below(fs', fileResult'.full_path) = {} ]_vars

\* The directory d was deleted with recursive = True
C16_Witness ==
    /\ Deleted /\ fileResult.recursive /\ fileResult.data = "directory"
    /\ fileResult.path = <<"d">>
    /\ Below(fs, fileResult.full_path) = {}
    /\ IsDir(fs, base_dir)

\* This step calls exists; what it reports
CallsExists == CalledFileOperations' /\ fileResult'.operation = "exists"
ReportsExisting == fileResult'.success /\ ~fileResult'.raised /\ fileResult'.data[1] = TRUE
ReportsMissing == fileResult'.success /\ ~fileResult'.raised /\ fileResult'.data[1] = FALSE

\* This step calls delete on a path that does not exist when the call is made
DeletesMissing ==
    /\ CalledFileOperations' /\ fileResult'.operation = "delete"
    /\ fileResult'.full_path \notin DOMAIN fs

\* exists succeeds and reports whether the path exists, and reports True
\* right after a successful write of the path
ExistsReports ==
    /\ CallsExists =>
          IF fileResult'.full_path \in DOMAIN fs' THEN ReportsExisting ELSE ReportsMissing
    /\ Wrote /\ ThenCalls("exists") => ReportsExisting

\* C17 as stated, for every path that resolves to the sandbox root or below
\* it: exists succeeds and reports whether the path exists, True after a
\* successful write, False after a successful delete, and delete of a path
\* that does not exist fails and changes nothing at or below the root.
C17_ExistsAndDeleteAnyPath ==
    [][ /\ ExistsReports
        /\ Deleted /\ ThenCalls("exists") => ReportsMissing
        /\ DeletesMissing =>
              /\ ~fileResult'.success
              /\ Below(fs', base_dir) = Below(fs, base_dir)
              /\ \A q \in Below(fs, base_dir) : fs'[q] = fs[q] ]_vars

\* C17, the sandbox root apart: exists succeeds and reports whether the path
\* exists, True after a successful write; after a successful delete of a
\* path below the root it reports False; delete of a path
\* below the root that does not exist fails and changes no entry below the
\* root (every call creates the root itself when it is missing).
C17_ExistsAndDelete ==
    [][ /\ ExistsReports
        /\ Deleted /\ ThenCalls("exists") /\ fileResult.full_path # base_dir => ReportsMissing
        /\ DeletesMissing /\ fileResult'.full_path # base_dir =>
              /\ ~fileResult'.success
              /\ Below(fs', base_dir) \ {base_dir} = Below(fs, base_dir) \ {base_dir}
              /\ \A q \in Below(fs, base_dir) : fs'[q] = fs[q] ]_vars

\* exists reports the file d/b.txt, which a write created
C17_Witness ==
    /\ CalledFileOperations /\ fileResult.operation = "exists"
    /\ fileResult.path = <<"d", "/", "b", ".", "t", "x", "t">>
    /\ fileResult.success /\ fileResult.data = <<TRUE, "file">>
    /\ IsFile(fs, fileResult.full_path)

-----------------------------------------------------------------------------
(* TerminalTool: working directory, segments and lock *)

\* The entries of an instance's history that a given call made
EventsOf(t, c) == { k \in DOMAIN termLog[t] : termLog[t][k].call = c }

\* The directory of the last successful cd made on instance t before entry
\* k of its history; without one, the initial working directory
DirectoryAt(t, k) ==
    LET cds == { j \in 1..(k - 1) : termLog[t][j].kind = "cd" }
    IN  IF cds = {} THEN InitialWorkingDirectory
        ELSE termLog[t][CHOOSE j \in cds : \A i \in cds : i <= j].path

\* C18: every subprocess started on an instance runs in the directory of the
\* last successful cd made on that instance before it, in the same call or
\* in an earlier one, and that is an existing directory; without such a cd
\* it runs in the initial working directory, and an instance on which no cd
\* succeeded has the initial working directory as its current path,
\* whatever was done on other instances.
C18_WorkingDirectoryPersists ==
    \A t \in Terminals :
        /\ \A k \in DOMAIN termLog[t] :
              /\ termLog[t][k].kind = "spawn" => termLog[t][k].path = DirectoryAt(t, k)
              /\ termLog[t][k].kind = "cd" => IsDir(fs, termLog[t][k].path)
        /\ terminals[t].constructed =>
              terminals[t].current_path = DirectoryAt(t, Len(termLog[t]) + 1)

\* Call 1 changed t1 to /etc; call 2, a later call on t1, ran pwd there,
\* and t2, on which nothing was done, is at the initial working directory
C18_Witness ==
    /\ \E j, k \in DOMAIN termLog["t1"] :
          /\ j < k
          /\ termLog["t1"][j].kind = "cd" /\ termLog["t1"][j].call = 1
          /\ termLog["t1"][j].path = << <<"e", "t", "c">> >>
          /\ termLog["t1"][k].kind = "spawn" /\ termLog["t1"][k].call = 2
          /\ termLog["t1"][k].path = << <<"e", "t", "c">> >>
    /\ executes[2].pc = "done" /\ executes[2].result[1].output = <<"/", "e", "t", "c">>
    /\ terminals["t2"].constructed /\ termLog["t2"] = <<>>
    /\ terminals["t2"].current_path = InitialWorkingDirectory
    /\ os_cwd = << <<"e", "t", "c">> >>

\* The texts that the entries of call c added to its output, in the order of
\* the history
RECURSIVE OutputsOf(_, _)
OutputsOf(log, c) ==
    IF log = <<>> THEN <<>>
    ELSE (IF Head(log).call = c /\ Head(log).kind \in {"cd", "finished"}
          THEN Head(log).text ELSE <<>>) \o OutputsOf(Tail(log), c)

\* The call has returned a success
ReturnedSuccess(c) == executes[c].pc = "done" /\ executes[c].result[1].success

\* The parts of the command between "&" that are not blank
Parts(command) ==
    LET parts == Split(command, <<"&">>, Len(command))
    IN  { k \in 1..Len(parts) : \E n \in 1..Len(parts[k]) : parts[k][n] \notin Whitespace }

\* C19: the entries of a call are in segment order; a segment's subprocess is
\* started only after every entry of the earlier segments, the end of their
\* subprocesses included; what is run holds no "&"; a call that returns a
\* success handled one segment for each part of the command that is not
\* blank, and its output is the outputs of its segments in segment order.
C19_SegmentsInOrder ==
    \A c \in CallIds : executes[c].pc \notin {"idle", "waiting"} =>
        LET log == termLog[executes[c].tool]
            mine == EventsOf(executes[c].tool, c)
            started == { k \in mine : log[k].kind = "spawn" }
        IN  /\ \A j, k \in mine : j < k => log[j].seg <= log[k].seg
            /\ \A j, k \in started :
                  j < k => \E m \in mine : j < m /\ m < k /\ log[m].kind = "finished"
                                           /\ log[m].seg = log[j].seg
            /\ \A k \in started : ~Contains(log[k].text, <<"&">>)
            /\ ReturnedSuccess(c) =>
                  /\ { log[k].seg : k \in { m \in mine : log[m].kind \in {"cd", "cd_failed", "spawn"} } }
                        = 1..Cardinality(Parts(executes[c].command))
                  /\ executes[c].result[1].output = Strip(OutputsOf(log, c))

\* Call 1 ran "cd .. && true & pwd": its output is the line of cd, then
\* that of pwd, and true ended before pwd was started
C19_Witness ==
    /\ ReturnedSuccess(1) /\ executes[1].tool = "t1"
    /\ executes[1].command = <<"c", "d", " ", ".", ".", " ", "&", "&", " ", "t", "r", "u", "e", " ", "&", " ", "p", "w", "d">>
    /\ executes[1].result[1].output = <<"C", "h", "a", "n", "g", "e", "d", " ", "d", "i", "r", "e", "c", "t", "o", "r", "y", " ", "t", "o", " ", "/", "h", "o", "m", "e">> \o <<"\n">> \o <<"/", "h", "o", "m", "e">>
    /\ \E j, k \in EventsOf("t1", 1) :
          /\ j < k
          /\ termLog["t1"][j].kind = "finished" /\ termLog["t1"][j].seg = 2
          /\ termLog["t1"][k].kind = "spawn" /\ termLog["t1"][k].seg = 3

\* The calls on instance t that are inside the async with block
InsideLock(t) ==
    { c \in CallIds : executes[c].tool = t /\ executes[c].pc = "communicate" }

\* The entries of a history made inside the async with block: the taking of
\* the lock, the segments with their updates of current_path, the release
Inside(log) ==
    LET NotWaiting(e) == e.kind # "waits"
    IN  SelectSeq(log, NotWaiting)

\* C20: on every instance at most one call is inside the async with block,
\* and the lock is held exactly while one is: a call that has left, with a
\* result or because a segment raised, does not hold it.  In the history of
\* the instance, the entries made inside the block change from one call to
\* another only from a release to the next taking of the lock, and the last
\* entry of a call that has left is its release.
C20_LockSerializesCalls ==
    \A t \in Terminals :
        /\ Cardinality(InsideLock(t)) <= 1
        /\ terminals[t].lock.locked <=> InsideLock(t) # {}
        /\ \A k \in 1..(Len(Inside(termLog[t])) - 1) :
              Inside(termLog[t])[k].call # Inside(termLog[t])[k + 1].call =>
                  /\ Inside(termLog[t])[k].kind = "released"
                  /\ Inside(termLog[t])[k + 1].kind = "acquired"
        /\ \A c \in CallIds :
              executes[c].tool = t /\ executes[c].pc = "done" =>
                  /\ executes[c].result # None
                  /\ \E k \in EventsOf(t, c) :
                        /\ termLog[t][k].kind = "released"
                        /\ \A m \in EventsOf(t, c) : m <= k

\* Call 2 was made on t1 while call 1 held the lock; a segment of call 1
\* raised, call 1 left with a failure, and call 2 then took the lock
C20_Witness ==
    /\ executes[1].tool = "t1" /\ executes[2].tool = "t1"
    /\ executes[1].pc = "done" /\ ~executes[1].result[1].success
    /\ InsideLock("t1") = {2}
    /\ \E j, k, m \in DOMAIN termLog["t1"] :
          /\ j < k /\ k < m
          /\ termLog["t1"][j] = Event(2, 0, "waits", <<>>, <<>>)
          /\ termLog["t1"][k].call = 1 /\ termLog["t1"][k].kind = "raised"
          /\ termLog["t1"][m] = Event(2, 0, "acquired", <<>>, <<>>)

-----------------------------------------------------------------------------
(* PythonExecuteTool: timeout, event loop, relayed result, errors *)

\* This step is the expiry of the timeout with the worker still running
TimeoutExpired == pyexec.pc = "join" /\ worker.state = "running" /\ pyexec'.pc # "join"

\* C21: when the timeout expires with the worker still running, execute
\* returns the failure that names the timeout, and the worker is not running
\* when it returns, whatever the code is.
C21_TimeoutTerminatesWorker ==
    [][ TimeoutExpired =>
          /\ pyexec'.pc = "returned"
          /\ pyexec'.result = Some(timed_out(pyexec.timeout))
          /\ worker'.state # "running" ]_vars

\* C22: while execute waits for its worker, the event loop can run another
\* coroutine.
C22_LoopNotBlocked == pyexec.pc \in {"join", "blocked"} => LoopFree

\* This step relays the result of a worker that ended before the timeout
Relays == pyexec.pc = "join" /\ worker.state = "exited" /\ pyexec'.pc = "returned"

\* What the code of the call did inside the worker
InWorker == exec(pyexec.code, safe_globals)

\* What the code computed without printing it is not in the result
ValueNotRelayed ==
    InWorker.computes # <<>> => ~Contains(pyexec'.result[1].output, InWorker.computes)

\* C23 as stated: the result of a worker that ended before the timeout is
\* success=true with exactly the printed text when the code raised no
\* exception, and success=false with the message of the exception when it
\* raised one, whatever the exception; a computed value is not in it.
C23_RelaysAnyException ==
    [][ Relays =>
          /\ IF InWorker.ends = "returns"
             THEN pyexec'.result = Some(ToolResult(TRUE, InWorker.prints, None))
             ELSE /\ ~pyexec'.result[1].success
                  /\ Contains(pyexec'.result[1].output, InWorker.message)
          /\ ValueNotRelayed ]_vars

\* C23, for the exceptions that _run_code catches: success=true with exactly
\* the printed text when the code raised nothing; success=false with "Error
\* executing code: " and the message when it raised an Exception; when it
\* raised a SystemExit, which is no Exception, success=false with "Error
\* executing code: " and no message.  A computed value is not in the result.
C23_RelaysWorkerResult ==
    [][ Relays =>
          /\ pyexec'.result =
                Some(CASE InWorker.ends = "returns" -> ToolResult(TRUE, InWorker.prints, None)
                       [] InWorker.ends = "raises" ->
                            ToolResult(FALSE, <<"E", "r", "r", "o", "r", " ", "e", "x", "e", "c", "u", "t", "i", "n", "g", " ", "c", "o", "d", "e", ":", " ">> \o InWorker.message, None)
                       [] OTHER -> ToolResult(FALSE, <<"E", "r", "r", "o", "r", " ", "e", "x", "e", "c", "u", "t", "i", "n", "g", " ", "c", "o", "d", "e", ":", " ">>, None))
          /\ ValueNotRelayed ]_vars

\* print('x') ended before the timeout and its text was relayed
C23_Witness ==
    /\ pyexec.pc = "returned" /\ worker.state = "exited"
    /\ pyexec.code.source = <<"p", "r", "i", "n", "t", "(", "'", "x", "'", ")">>
    /\ pyexec.result = Some(ToolResult(TRUE, <<"x", "\n">>, None))

\* C24: no exception leaves execute for an error outside the worker: the
\* failure to create the shared result store and the failure to start the
\* worker are returned as failures.
C24_NeverPropagates ==
    /\ pyexec.pc # "raised"
    /\ pyexec.pc = "returned" /\ worker.state = "none" => ~pyexec.result[1].success


-----------------------------------------------------------------------------
(* The file rules of the agent, with the FileOperationsTool registered *)

\* The registry holds the FileOperationsTool of tool/file_operations.py under
\* its name
FileToolRegistered ==
    get(tools, <<"f", "i", "l", "e", "_", "o", "p", "e", "r", "a", "t", "i", "o", "n", "s">>) = Some(FileOperationsTool)

\* parts of rule 6: input_text.lower().split(" file ", 1)
CreateFileParts == Split(Lower(lastRun.input), <<" ", "f", "i", "l", "e", " ">>, 1)

\* The last tool call of the run returned a successful result
LastCallSucceeded ==
    /\ lastRun.calls # <<>>
    /\ lastRun.calls[Len(lastRun.calls)].outcome.kind = "return"
    /\ lastRun.calls[Len(lastRun.calls)].outcome.result.success

\* C25: when the create-file rule handles an input that holds " file "
\* followed by a name and the FileOperationsTool is registered, the file
\* tool's call succeeds, the response is "Created file: {filename}" and it is
\* appended to memory as an assistant message.
C25_CreateFileRule ==
    [][ (HandledByRule(6) /\ FileToolRegistered /\ Len(CreateFileParts) > 1)' =>
          /\ lastRun'.kind = "returned" /\ ~lastRun'.caught
          /\ LastCallSucceeded'
          /\ lastRun'.text = <<"C", "r", "e", "a", "t", "e", "d", " ", "f", "i", "l", "e", ":", " ">> \o Strip(CreateFileParts[2])'
          /\ messages' = messages \o << UserMessage', AssistantMessage' >> ]_vars

\* path of rule 7: the rest of the input after its second space, else "."
ListFilesPath ==
    LET parts == Split(lastRun.input, <<" ">>, 2)
    IN  IF Len(parts) > 2 THEN Strip(parts[3]) ELSE <<".">>

\* C26: when the list-files rule handles the input and the FileOperationsTool
\* is registered, the file tool is called with the path of the input (or "."),
\* the call succeeds, and the response, which lists the files found or says
\* that none were found in that path, is appended to memory as an assistant
\* message.
C26_ListFilesRule ==
    [][ (HandledByRule(7) /\ FileToolRegistered)' =>
          /\ lastRun'.kind = "returned" /\ ~lastRun'.caught
          /\ LastCallSucceeded'
          /\ lastRun'.calls[Len(lastRun'.calls)].kwargs.path = ListFilesPath'
          /\ \/ StartsWith(lastRun'.text, <<"F", "i", "l", "e", "s", " ", "i", "n", " ">> \o ListFilesPath')
             \/ lastRun'.text = <<"N", "o", " ", "f", "i", "l", "e", "s", " ", "f", "o", "u", "n", "d", " ", "i", "n", " ">> \o ListFilesPath'
          /\ messages' = messages \o << UserMessage', AssistantMessage' >> ]_vars

-----------------------------------------------------------------------------
(* The terminal rule of the agent *)

TerminalRegistered == get(tools, <<"t", "e", "r", "m", "i", "n", "a", "l">>) # None

\* The run called the terminal tool
RoutedToTerminal == \E i \in DOMAIN lastRun.calls : lastRun.calls[i].tool = <<"t", "e", "r", "m", "i", "n", "a", "l">>

\* The terminal tool's call is the last of the run
TerminalCall == lastRun.calls[Len(lastRun.calls)]

PlaceholderMessage == <<"(", "C", "o", "m", "m", "a", "n", "d", " ", "e", "x", "e", "c", "u", "t", "e", "d", " ", "s", "u", "c", "c", "e", "s", "s", "f", "u", "l", "l", "y", " ", "w", "i", "t", "h", " ", "n", "o", " ", "o", "u", "t", "p", "u", "t", ")">>

\* The call rule 5 makes and what it answers when the result is successful
\* and its output empty
TerminalRuleAnswers ==
    [][ (ReachedRules /\ RoutedToTerminal)' =>
          /\ TerminalCall'.tool = <<"t", "e", "r", "m", "i", "n", "a", "l">>
          /\ TerminalCall'.kwargs = [command |-> lastRun'.input]
          /\ (/\ TerminalCall'.outcome.kind = "return"
              /\ TerminalCall'.outcome.result.success
              /\ TerminalCall'.outcome.result.output = <<>>)
             => /\ lastRun'.kind = "returned" /\ ~lastRun'.caught
                /\ lastRun'.text = PlaceholderMessage
                /\ messages' = messages \o << UserMessage', Message("assistant", PlaceholderMessage) >> ]_vars

\* C27 as stated: with the terminal tool registered, the terminal tool is
\* called exactly when the input, lower-cased, is one of the five words or
\* begins with one of the seven prefixes.
C27_RoutedWheneverMatched ==
    [][ (ReachedRules /\ TerminalRegistered)' =>
          (RoutedToTerminal' <=> IsTerminalCommand(lastRun'.input)) ]_vars

\* C27, with the rule order: with the terminal tool registered, the terminal
\* tool is called exactly when the input matches the words or prefixes of
\* rule 5 and rule 1 has not ended the step (the input holds no system-status
\* keyword, or system_info is missing or returned success = False); the
\* command is the raw input, and a successful result with empty output makes
\* the placeholder both the response and the assistant message appended.
C27_RoutedWhenHandledByRule5 ==
    /\ [][ (ReachedRules /\ TerminalRegistered)' =>
             (RoutedToTerminal' <=>
                /\ IsTerminalCommand(lastRun'.input)
                /\ 1 \in MatchedRules(lastRun'.input) => (SystemInfoMissing \/ SystemInfoFailed)') ]_vars
    /\ TerminalRuleAnswers

\* "LS" run with the terminal tool registered, the tool returning success
\* with no output
C27_Witness ==
    /\ ReachedRules /\ RoutedToTerminal
    /\ lastRun.input = <<"L", "S">>
    /\ TerminalCall.kwargs = [command |-> <<"L", "S">>]
    /\ TerminalCall.outcome.kind = "return" /\ TerminalCall.outcome.result.success
    /\ lastRun.text = PlaceholderMessage
    /\ messages[Len(messages)] = Message("assistant", PlaceholderMessage)

-----------------------------------------------------------------------------
(* Exit status and standard error of a segment *)

\* The subprocess whose end is entry k of a history: the one that the same
\* call started for the same segment
ProcessOf(log, k) ==
    LET j == CHOOSE j \in 1..k : /\ log[j].kind = "spawn"
                                 /\ log[j].call = log[k].call /\ log[j].seg = log[k].seg
    IN  Subprocess(log[j].text, log[j].path)

\* The entries at which a subprocess of call c ended that had a non-zero exit
\* status or had written to standard error
EndedBadly(t, c) ==
    { k \in EventsOf(t, c) :
        /\ termLog[t][k].kind = "finished"
        /\ ProcessOf(termLog[t], k).returncode # 0 \/ ProcessOf(termLog[t], k).stderr # <<>> }

\* The entries at which call c started a subprocess that has ended, with
\* a non-zero exit status or with text on standard error, all of it UTF-8
StartedBadOnes(t, c) ==
    { j \in EventsOf(t, c) :
        /\ termLog[t][j].kind = "spawn"
        /\ ~(executes[c].pc = "communicate" /\ executes[c].i = termLog[t][j].seg)
        /\ LET p == Subprocess(termLog[t][j].text, termLog[t][j].path)
           IN  p.utf8 /\ (p.returncode # 0 \/ p.stderr # <<>>) }

\* C28: when a segment's subprocess ends with a non-zero exit status or with
\* text on standard error, the call goes on with the next segment (a cd, or
\* the start of a subprocess, which alone may fail) or, after the last
\* segment, returns success = True; a call that returns a success has the
\* standard error of each such segment in data['error'] and not in output.
C28_StderrAndStatusDoNotFail ==
    \A c \in CallIds : executes[c].pc \notin {"idle", "waiting"} =>
        LET t == executes[c].tool
            log == termLog[t]
            segs == TerminalSegments[executes[c].command]
        IN  /\ \A j \in StartedBadOnes(t, c) :
                  \E k \in EndedBadly(t, c) : k > j /\ log[k].seg = log[j].seg
            /\ \A k \in EndedBadly(t, c) :
                  LET p == ProcessOf(log, k)
                      s == log[k].seg
                  IN  /\ k + 1 \in EventsOf(t, c)
                      /\ IF s < Len(segs)
                         THEN /\ log[k + 1].seg = s + 1
                              /\ \/ log[k + 1].kind \in {"cd", "cd_failed", "spawn"}
                                 \/ log[k + 1].kind = "raised" /\ log[k + 1].text = SpawnError
                         ELSE log[k + 1].kind = "released" /\ ReturnedSuccess(c)
                      /\ ReturnedSuccess(c) /\ p.stderr # <<>> =>
                            /\ Contains(executes[c].result[1].data[1].error, Strip(p.stderr))
                            /\ ~Contains(executes[c].result[1].output, Strip(p.stderr))
                      /\ ReturnedSuccess(c) =>
                            executes[c].result[1].output = Strip(OutputsOf(log, c))

\* Call 1 ran "false & nocmd & pwd": false ended with status 1, nocmd with
\* status 127 and a line on standard error, pwd ran, and the call returned a
\* success whose output is the line of pwd and whose data['error'] is the
\* line of nocmd
C28_Witness ==
    /\ ReturnedSuccess(1) /\ executes[1].tool = "t1"
    /\ executes[1].command = <<"f", "a", "l", "s", "e", " ", "&", " ", "n", "o", "c", "m", "d", " ", "&", " ", "p", "w", "d">>
    /\ Cardinality(EndedBadly("t1", 1)) = 2
    /\ executes[1].result[1].output = <<"/", "h", "o", "m", "e", "/", "u">>
    /\ executes[1].result[1].data[1].error = <<"s", "h", ":", " ", "1", ":", " ", "n", "o", "c", "m", "d", ":", " ", "n", "o", "t", " ", "f", "o", "u", "n", "d">>

-----------------------------------------------------------------------------
(* The sequential flow *)

\* The names of agent_sequence that are keys of the agent map, in order
PresentNames ==
    LET Present(agent_key) == InAgents(flow, agent_key)
    IN  SelectSeq(flow.agent_sequence, Present)

\* The agents run so far and the texts they returned, in the order of the runs
AgentsRun == [i \in DOMAIN flowLog |-> flowLog[i].agent]
TextsReturned == [i \in DOMAIN flowLog |-> flowLog[i].text]

\* The first agent run was given the input of the flow, each later one the
\* text returned by the run before it
Chained ==
    \A i \in DOMAIN flowLog :
        flowLog[i].input = IF i = 1 THEN flow.input_text ELSE flowLog[i - 1].text

FlowDone == flow.pc = "done"

\* C29 as stated: when execute has returned, the agents run are those of
\* agent_sequence that are in the agent map, in sequence order, each given the
\* text returned by the one before it (the first the flow's input), and the
\* flow's result is the texts they returned, joined in that order.
C29_RunsEveryAgentInOrder ==
    FlowDone =>
        /\ AgentsRun = PresentNames
        /\ \A i \in DOMAIN flowLog : flowLog[i].kind = "returned"
        /\ Chained
        /\ flow.result = Some(Join(TextsReturned, <<"\n", "\n">>))

\* C29, with the failures of execute: the agents run are, in sequence order,
\* those of agent_sequence that are in the agent map, one at a time, each
\* given the text returned by the one before it (the first the flow's input),
\* up to the first run that raises; with an empty agent map no agent is run and
\* the result is "Execution failed: No agents available"; when a run raises,
\* no later agent is run and the result is "Execution failed: " and the
\* error; otherwise every such agent is run and the result is the texts
\* returned, joined by a blank line in that order.
C29_RunsInOrderUntilFailure ==
    /\ Len(AgentsRun) <= Len(PresentNames)
    /\ AgentsRun = SubSeq(PresentNames, 1, Len(AgentsRun))
    /\ \A i \in DOMAIN flowLog : i < Len(flowLog) => flowLog[i].kind = "returned"
    /\ Chained
    /\ flow.pc = "run" =>
          /\ flow.agent_sequence[flow.k] = PresentNames[Len(flowLog) + 1]
          /\ flow.current_input = IF flowLog = <<>> THEN flow.input_text
                                  ELSE flowLog[Len(flowLog)].text
    /\ FlowDone =>
          IF flow.agents = <<>>
          THEN /\ flowLog = <<>>
               /\ flow.result = Some(<<"E", "x", "e", "c", "u", "t", "i", "o", "n", " ", "f", "a", "i", "l", "e", "d", ":", " ", "N", "o", " ", "a", "g", "e", "n", "t", "s", " ", "a", "v", "a", "i", "l", "a", "b", "l", "e">>)
          ELSE IF flowLog # <<>> /\ flowLog[Len(flowLog)].kind = "raised"
          THEN flow.result = Some(<<"E", "x", "e", "c", "u", "t", "i", "o", "n", " ", "f", "a", "i", "l", "e", "d", ":", " ">> \o flowLog[Len(flowLog)].text)
          ELSE /\ AgentsRun = PresentNames
               /\ flow.result = Some(Join(TextsReturned, <<"\n", "\n">>))

\* A flow of the agents a and b with the sequence b, ghost, a, given "hi":
\* b is run with "hi" and returns "x", ghost is skipped, a is run with "x"
C29_Witness ==
    /\ FlowDone
    /\ flow.agents = <<"a", "b">> /\ flow.agent_sequence = <<"b", "ghost", "a">>
    /\ flow.input_text = <<"h", "i">>
    /\ flowLog = << FlowRun("b", <<"h", "i">>, "returned", <<"x">>),
                    FlowRun("a", <<"x">>, "returned", <<"E", "r", "r", "o", "r", ":", " ", "b", "o", "o", "m">>) >>
    /\ flow.result = Some(<<"x">> \o <<"\n", "\n">> \o <<"E", "r", "r", "o", "r", ":", " ", "b", "o", "o", "m">>)

-----------------------------------------------------------------------------
(* The configuration singleton *)

\* C30: every Config() call that has returned was given the one instance of
\* the class, and the configuration is not loaded more than once: once a
\* call has returned, it has been loaded exactly once.
C30_SingletonLoadedOnce ==
    /\ config.instances <= 1
    /\ \A t \in Threads :
          threads[t].returned # None => threads[t].returned = config._instance
    /\ config.loads <= 1
    /\ (\E t \in Threads : threads[t].returned # None) => config.loads = 1

-----------------------------------------------------------------------------
(* The state field of the agent *)

\* The values of the AgentState members that the agent is said to enter
StatesEntered == { "idle", "running", "error" }

\* C32: the agent's state field is always the value of one of the AgentState
\* members idle, running and error.
C32_StateIsAgentStateMember == state \in StatesEntered

\* The returned texts after which no assistant message is said to be added
NoAnswerText(text) ==
    \/ StartsWith(text, <<"F", "a", "i", "l", "e", "d", " ", "t", "o", " ">>)
    \/ Contains(text, <<" ", "t", "o", "o", "l", " ", "i", "s", " ", "n", "o", "t", " ", "a", "v", "a", "i", "l", "a", "b", "l", "e", ".">>)
    \/ StartsWith(text, <<"P", "l", "e", "a", "s", "e", " ", "s", "p", "e", "c", "i", "f", "y", " ">>)
    \/ StartsWith(text, <<"E", "r", "r", "o", "r", ":">>)

\* The response is made of the result of a successful tool call (the step
\* did not end in its except clause), or is an LLM completion
AnsweredByToolOrLLM ==
    \/ /\ lastRun.calls # <<>> /\ ~lastRun.caught
       /\ lastRun.calls[Len(lastRun.calls)].outcome.kind = "return"
       /\ lastRun.calls[Len(lastRun.calls)].outcome.result.success
       /\ lastRun.llm = <<>>
    \/ /\ Len(lastRun.llm) = 1
       /\ lastRun.llm[1].completion.kind = "return"
       /\ lastRun.text = lastRun.llm[1].completion.text

RunCalledFileTool ==
    \E i \in DOMAIN lastRun.calls : lastRun.calls[i].tool = <<"f", "i", "l", "e", "_", "o", "p", "e", "r", "a", "t", "i", "o", "n", "s">>

\* C34: an input that is "ls" in any case is handled by the terminal rule and
\* never makes the agent call the file tool, whether or not the terminal tool
\* is registered.
C34_LsNeverListsFiles ==
    [][ (RanAgent /\ Lower(lastRun.input) = <<"l", "s">>)' =>
          /\ ~RunCalledFileTool'
          /\ ReachedRules' =>
                /\ HandledByRule(5)'
                /\ IF TerminalRegistered'
                   THEN Len(lastRun'.calls) = 1 /\ RoutedToTerminal'
                   ELSE lastRun'.calls = <<>> /\ lastRun'.text = MissingToolSentence(5) ]_vars

\* "LS" asked of an agent that holds both the terminal and the file tool:
\* the terminal tool is called, the file tool is not
C34_Witness ==
    /\ RanAgent /\ ReachedRules
    /\ lastRun.input = <<"L", "S">>
    /\ FileToolRegistered /\ TerminalRegistered
    /\ RoutedToTerminal /\ ~RunCalledFileTool
    /\ 7 \in MatchedRules(lastRun.input)

-----------------------------------------------------------------------------
(* TerminalTool: a cd that fails *)

\* The line that a cd to something that is not a directory adds to the
\* error text of its call
CdErrorLine(f, path) ==
    IF ~Exists(f, path) THEN <<"D", "i", "r", "e", "c", "t", "o", "r", "y", " ", "n", "o", "t", " ", "f", "o", "u", "n", "d", ":", " ">> \o PathStr(path) \o <<"\n">>
    ELSE <<"E", "r", "r", "o", "r", " ", "c", "h", "a", "n", "g", "i", "n", "g", " ", "d", "i", "r", "e", "c", "t", "o", "r", "y", ":", " ">> \o NotADirectory(path) \o <<"\n">>

\* C35: a cd segment changes the current path exactly when its target is a
\* directory; a step in which no cd succeeded leaves the current path of
\* the instance as it was; a cd that failed added its line to the error
\* text of the call, and the next entry of the history is that of the
\* call's next segment, or the return of the call when it was the last;
\* the current path of an instance is a directory.
C35_FailedCdKeepsPath ==
    [][ \A t \in Terminals :
          LET log == termLog'[t]
              new == (Len(termLog[t]) + 1)..Len(log)
              cds == { k \in new : log[k].kind \in {"cd", "cd_failed"} }
          IN  /\ \A k \in cds : (log[k].kind = "cd_failed") <=> ~IsDir(fs, log[k].path)
              /\ (terminals[t].constructed /\ \A k \in cds : log[k].kind = "cd_failed")
                    => terminals'[t].current_path = terminals[t].current_path
              /\ \A k \in cds : log[k].kind = "cd_failed" =>
                    LET c == log[k].call
                        segs == commands(executes'[c].command)
                    IN  /\ Contains(executes'[c].final_error, CdErrorLine(fs, log[k].path))
                        /\ k < Len(log) /\ log[k + 1].call = c
                        /\ IF log[k].seg < Len(segs)
                           THEN /\ log[k + 1].seg = log[k].seg + 1
                                /\ log[k + 1].kind \in {"cd", "cd_failed", "spawn", "raised"}
                           ELSE /\ log[k + 1].kind = "released"
                                /\ executes'[c].pc = "done"
                                /\ executes'[c].result[1].success
                                /\ Contains(executes'[c].result[1].data[1].error \o <<"\n">>,
                                            CdErrorLine(fs, log[k].path))
              /\ terminals'[t].constructed => IsDir(fs, terminals'[t].current_path) ]_vars

\* Call 1 ran "cd nowhere & cd /etc/passwd& ls " on t1: both cd failed,
\* ls was started in the initial working directory, and the result holds
\* the two lines of the cds
C35_Witness ==
    /\ ReturnedSuccess(1) /\ executes[1].tool = "t1"
    /\ executes[1].command = <<"c", "d", " ", "n", "o", "w", "h", "e", "r", "e", " ", "&", " ", "c", "d", " ", "/", "e", "t", "c", "/", "p", "a", "s", "s", "w", "d", "&", " ", "l", "s", " ">>
    /\ terminals["t1"].current_path = InitialWorkingDirectory
    /\ \E i, j, k \in EventsOf("t1", 1) :
          /\ i < j /\ j < k
          /\ termLog["t1"][i].kind = "cd_failed" /\ ~Exists(fs, termLog["t1"][i].path)
          /\ termLog["t1"][j].kind = "cd_failed" /\ IsFile(fs, termLog["t1"][j].path)
          /\ termLog["t1"][k].kind = "spawn" /\ termLog["t1"][k].text = <<"l", "s">>
          /\ termLog["t1"][k].path = InitialWorkingDirectory
    /\ StartsWith(executes[1].result[1].data[1].error, <<"D", "i", "r", "e", "c", "t", "o", "r", "y", " ", "n", "o", "t", " ", "f", "o", "u", "n", "d", ":", " ", "/", "h", "o", "m", "e", "/", "u", "/", "n", "o", "w", "h", "e", "r", "e">>)
    /\ Contains(executes[1].result[1].data[1].error, <<"E", "r", "r", "o", "r", " ", "c", "h", "a", "n", "g", "i", "n", "g", " ", "d", "i", "r", "e", "c", "t", "o", "r", "y", ":", " ", "[", "E", "r", "r", "n", "o", " ", "2", "0", "]", " ", "N", "o", "t", " ", "a", " ", "d", "i", "r", "e", "c", "t", "o", "r", "y", ":", " ", "'", "/", "e", "t", "c", "/", "p", "a", "s", "s", "w", "d", "'">>)

-----------------------------------------------------------------------------
(* PythonExecuteTool: a worker that ends without a result *)

\* This step relays the result of a worker that ended before the timeout,
\* by itself or killed
RelaysEnded ==
    pyexec.pc = "join" /\ worker.state \in {"exited", "killed"} /\ pyexec'.pc = "returned"

\* The worker ran _run_code up to the store of the success
RecordedSuccess == worker.state = "exited" /\ InWorker.ends = "returns"

\* C36: the result relayed for a worker that ended before the timeout is a
\* success only if the worker ran up to the store of the success; for a
\* worker that was killed before, and for a code that left the interpreter,
\* it is a failure that starts with "Error executing code: ".
C36_SuccessOnlyIfRecorded ==
    [][ RelaysEnded =>
          /\ pyexec'.result # None
          /\ pyexec'.result[1].success <=> RecordedSuccess
          /\ ~RecordedSuccess => StartsWith(pyexec'.result[1].output, <<"E", "r", "r", "o", "r", " ", "e", "x", "e", "c", "u", "t", "i", "n", "g", " ", "c", "o", "d", "e", ":", " ">>) ]_vars

\* print('x') was killed after it stored the printed text and before it
\* stored the success: the result is a failure
C36_Witness ==
    /\ pyexec.pc = "returned" /\ worker.state = "killed"
    /\ pyexec.code.source = <<"p", "r", "i", "n", "t", "(", "'", "x", "'", ")">>
    /\ worker.result_dict = [observation |-> <<"x", "\n">>, success |-> FALSE]
    /\ pyexec.result = Some(ToolResult(FALSE, <<"E", "r", "r", "o", "r", " ", "e", "x", "e", "c", "u", "t", "i", "n", "g", " ", "c", "o", "d", "e", ":", " ", "x">> \o <<"\n">>, None))

-----------------------------------------------------------------------------
(* FileOperationsTool: the sandbox root *)

\* C37: when a FileOperationsTool operation has returned, the sandbox root
\* is an existing directory.
C37_RootSurvives == lastOp = "file_operations" => IsDir(fs, base_dir)

-----------------------------------------------------------------------------
(* Memory: get_recent_messages and the add_<role>_message methods *)

\* The last k messages of the memory, in their stored order
LastMessages(k) == SubSeq(messages, Len(messages) - k + 1, Len(messages))

\* C38: get_recent_messages(n) returns the last min(n, length) messages in
\* their stored order: none for n = 0, all of them for n >= length.
C38_RecentMessages ==
    lastOp = "get_recent_messages" =>
        memCall.returned = LastMessages(IF memCall.n < Len(messages) THEN memCall.n
                                        ELSE Len(messages))

\* C39: add_user_message, add_system_message, add_assistant_message and
\* add_tool_message raise nothing and leave the memory as add_message does
\* with the message of that role, content and name.
C39_AddsLikeAddMessage ==
    [][ lastOp' = "add_role_message" =>
          /\ memCall'.raised = ""
          /\ messages' = add_message(messages, max_messages, memCall'.message[1]) ]_vars

-----------------------------------------------------------------------------
(* Overlapping run() calls *)

\* The run() calls that were entered and have not returned
InProgress == { c \in Coros : coros[c].pc = "awaiting" }

\* C31: while a run() call on the agent is in progress, the state of the
\* agent is the one that run() sets when it is entered.
C31_RunningWhileInProgress == InProgress # {} => state = "RUNNING"
=============================================================================
